---- MODULE Spec2Model ----
(***************************************************************************)
(* Model of the vCard contact extractor: the field parser                  *)
(* (vcf_field_parser.py), the multimedia decoder                           *)
(* (vcard_multimedia_helper.py), the contact assembler and the batch       *)
(* driver (contacts_vcard_extractor.py).                                   *)
(*                                                                         *)
(* A Python str is a sequence of one-character strings, so that split,     *)
(* startswith, strip and join are computed as the code computes them.      *)
(***************************************************************************)
EXTENDS Integers, Sequences, FiniteSets, TLC

(***************************************************************************)
(* Bounds of the model.                                                    *)
(***************************************************************************)
\* the largest number of lines read over all files of one batch
MaxLines == 5
\* the largest number of entries of the input directory
MaxFiles == 2
\* the largest length of the value of a line drawn for the line parser
MaxValueLen == 3
\* the largest number of components of a structured value
MaxComponents == 6

(***************************************************************************)
(* str operations                                                          *)
(***************************************************************************)
\* the characters str.strip() removes
Whitespace == {" ", "\n", "\r", "\t"}

RECURSIVE LStrip(_)
LStrip(s) == IF s # <<>> /\ Head(s) \in Whitespace THEN LStrip(Tail(s)) ELSE s

RECURSIVE RStrip(_)
RStrip(s) ==
  IF s # <<>> /\ s[Len(s)] \in Whitespace
  THEN RStrip(SubSeq(s, 1, Len(s) - 1)) ELSE s

\* str.strip()
Strip(s) == RStrip(LStrip(s))

\* str.startswith(p)
StartsWith(s, p) == Len(p) <= Len(s) /\ SubSeq(s, 1, Len(p)) = p

\* str.endswith(p)
EndsWith(s, p) == Len(p) <= Len(s) /\ SubSeq(s, Len(s) - Len(p) + 1, Len(s)) = p

\* c in s, for a one-character c
Contains(s, c) == \E i \in 1..Len(s) : s[i] = c

\* str.split(c) for a one-character separator: always at least one part
RECURSIVE Split(_, _)
Split(s, c) ==
  IF ~Contains(s, c) THEN <<s>>
  ELSE LET i == CHOOSE k \in 1..Len(s) : s[k] = c /\ \A j \in 1..(k - 1) : s[j] # c
       IN  <<SubSeq(s, 1, i - 1)>> \o Split(SubSeq(s, i + 1, Len(s)), c)

\* sep.join(parts)
RECURSIVE Join(_, _)
Join(parts, sep) ==
  IF parts = <<>> THEN <<>>
  ELSE IF Len(parts) = 1 THEN parts[1]
  ELSE parts[1] \o sep \o Join(Tail(parts), sep)

\* str.replace(c, "") for a one-character c
Remove(s, c) == SelectSeq(s, LAMBDA x : x # c)

\* list[1:]
Rest(l) == IF l = <<>> THEN <<>> ELSE Tail(l)

(***************************************************************************)
(* Python values.  A field value is a str, a dict from str to str, or a    *)
(* tuple of str; a raised exception is carried in exc ("none": returned).  *)
(***************************************************************************)
EmptyDict == <<>>
StrV(s) == [kind |-> "str", s |-> s, d |-> EmptyDict, t |-> <<>>]
DictV(d) == [kind |-> "dict", s |-> <<>>, d |-> d, t |-> <<>>]
TupleV(t) == [kind |-> "tuple", s |-> <<>>, d |-> EmptyDict, t |-> t]
NoneV == [kind |-> "none", s |-> <<>>, d |-> EmptyDict, t |-> <<>>]

Returns(v) == [exc |-> "none", v |-> v]
Raises(e) == [exc |-> e, v |-> NoneV]

\* {k: v}
Single(k, v) == [x \in {k} |-> v]
\* dict.update: the entries of new replace those of old
Update(old, new) ==
  [k \in DOMAIN old \cup DOMAIN new |-> IF k \in DOMAIN new THEN new[k] ELSE old[k]]

(***************************************************************************)
(* vcf_field_parser.py                                                     *)
(***************************************************************************)
TAG_FIELD_SEPARATOR == ";"
KEY_VALUE_SEPARATOR == ":"
TYPE_ASSIGNMENT_OR_LABEL_SEPARATOR == "="

SIMPLE_KEYS ==
  << <<"A","G","E","N","T">>, <<"A","N","N","I","V","E","R","S","A","R","Y">>, <<"B","D","A","Y">>, <<"C","A","L","A","D","R","U","R","I">>, <<"C","A","L","U","R","I">>,
     <<"C","L","A","S","S">>, <<"F","B","U","R","L">>, <<"F","N">>, <<"G","E","N","D","E","R">>, <<"K","I","N","D">>, <<"L","A","N","G">>,
     <<"M","A","I","L","E","R">>, <<"N","I","C","K","N","A","M","E">>, <<"N","O","T","E">>, <<"P","R","O","D","I","D">>, <<"P","R","O","F","I","L","E">>, <<"R","E","V">>,
     <<"R","O","L","E">>, <<"S","O","R","T","-","S","T","R","I","N","G">>, <<"S","O","U","R","C","E">>, <<"T","I","T","L","E">>, <<"T","Z">>, <<"U","R","L">>,
     <<"V","E","R","S","I","O","N">>, <<"X","M","L">> >>

\* "".join(file_line.split(":")[1:]): the parts after the first colon are
\* joined by the empty string
parse_simple_tag(file_line) ==
  Join(Rest(Split(file_line, KEY_VALUE_SEPARATOR)), <<>>)

\* the dict of the (name, value) pairs with a non-empty value, or the error
helper_match_subkey_types_and_values(subkey_names, values, contains_tag_name) ==
  LET first == Split(values[1], KEY_VALUE_SEPARATOR)
      vals  == IF contains_tag_name THEN [values EXCEPT ![1] = first[2]] ELSE values
      keep  == {i \in 1..Len(subkey_names) : vals[i] # <<>>}
  IN  IF contains_tag_name /\ Len(first) < 2 THEN Raises("IndexError")
      ELSE IF Len(subkey_names) # Len(vals) THEN Raises("ValueError")
      ELSE Returns(DictV([k \in {subkey_names[i] : i \in keep} |->
                            vals[CHOOSE i \in keep : subkey_names[i] = k]]))

\* helper_match_generic_label_and_types keeping only the text between the
\* first colon and the second
helper_match_generic_first_part(text_line) ==
  LET text_line_split == Split(text_line, KEY_VALUE_SEPARATOR)
      data   == IF Len(text_line_split) < 2 THEN <<>> ELSE text_line_split[2]
      prefix == text_line_split[1]
      byEq   == Split(prefix, TYPE_ASSIGNMENT_OR_LABEL_SEPARATOR)
      bySemi == Split(prefix, TAG_FIELD_SEPARATOR)
  IN  IF Contains(prefix, TYPE_ASSIGNMENT_OR_LABEL_SEPARATOR)
      THEN Returns(DictV(Single(byEq[2], data)))
      ELSE IF Len(bySemi) < 2 THEN Raises("IndexError")
      ELSE Returns(DictV(Single(bySemi[2], data)))

\* the generic parser with a default for the tag that has no parameter: the
\* data under the empty type
helper_match_generic_label_and_types_or_untyped(text_line) ==
  LET text_line_split == Split(text_line, KEY_VALUE_SEPARATOR)
      data   == Join(Rest(text_line_split), <<KEY_VALUE_SEPARATOR>>)
      prefix == text_line_split[1]
      byEq   == Split(prefix, TYPE_ASSIGNMENT_OR_LABEL_SEPARATOR)
      bySemi == Split(prefix, TAG_FIELD_SEPARATOR)
  IN  IF Contains(prefix, TYPE_ASSIGNMENT_OR_LABEL_SEPARATOR)
      THEN Returns(DictV(Single(byEq[2], data)))
      ELSE IF Len(bySemi) < 2 THEN Returns(DictV(Single(<<>>, data)))
      ELSE Returns(DictV(Single(bySemi[2], data)))

\* <KEY>;TYPE=<KEY_TYPE>:<KEY_DATA> or <KEY>;<KEY_TYPE>:<KEY_DATA>
helper_match_generic_label_and_types(text_line) ==
  LET text_line_split == Split(text_line, KEY_VALUE_SEPARATOR)
      data   == Join(Rest(text_line_split), <<KEY_VALUE_SEPARATOR>>)
      prefix == text_line_split[1]
      byEq   == Split(prefix, TYPE_ASSIGNMENT_OR_LABEL_SEPARATOR)
      bySemi == Split(prefix, TAG_FIELD_SEPARATOR)
  IN  IF Contains(prefix, TYPE_ASSIGNMENT_OR_LABEL_SEPARATOR)
      THEN Returns(DictV(Single(byEq[2], data)))
      ELSE IF Len(bySemi) < 2 THEN Raises("IndexError")
      ELSE Returns(DictV(Single(bySemi[2], data)))

\* ADR;TYPE=HOME:;;123 Main St;City;State;12345;USA
parse_address_tag(address_line) ==
  LET addr_line_split == Split(address_line, TAG_FIELD_SEPARATOR)
      n      == Len(addr_line_split)
      withKV == {i \in 1..n : Contains(addr_line_split[i], KEY_VALUE_SEPARATOR)}
      last   == IF withKV = {} THEN 0
                ELSE CHOOSE i \in withKV : \A j \in withKV : j <= i
      address == Join(SubSeq(addr_line_split, last + 1, n), <<" ">>)
      second == addr_line_split[2]
      byEq   == Split(second, TYPE_ASSIGNMENT_OR_LABEL_SEPARATOR)
  IN  IF n > 1 /\ StartsWith(second, <<"T","Y","P","E">>) /\ Len(byEq) < 2
      THEN Raises("IndexError")
      ELSE LET address_type ==
                 IF n > 1
                 THEN IF StartsWith(second, <<"T","Y","P","E">>)
                      THEN Split(byEq[2], KEY_VALUE_SEPARATOR)[1]
                      ELSE second
                 ELSE <<>>
           IN  Returns(DictV(Single(address_type, Strip(address))))

\* the printable ASCII characters in code point order: 32..95 and 97..126
\* (96, the backquote, cannot be written in a string of this language)
AsciiLow ==
  <<" ","!","\"","#","$","%","&","'","(",")","*","+",",","-",".","/","0","1","2","3","4","5","6","7","8","9",":",";","<","=",">","?","@","A","B","C","D","E","F","G","H","I","J","K","L","M","N","O","P","Q","R","S","T","U","V","W","X","Y","Z","[","\\","]","^","_">>
AsciiHigh ==
  <<"a","b","c","d","e","f","g","h","i","j","k","l","m","n","o","p","q","r","s","t","u","v","w","x","y","z","{","|","}","~">>

\* ord(c)
Ord(c) ==
  IF Contains(AsciiLow, c)
  THEN 31 + (CHOOSE i \in 1..Len(AsciiLow) : AsciiLow[i] = c)
  ELSE 96 + (CHOOSE i \in 1..Len(AsciiHigh) : AsciiHigh[i] = c)

\* a < b on str
RECURSIVE StrLess(_, _)
StrLess(a, b) ==
  IF b = <<>> THEN FALSE
  ELSE IF a = <<>> THEN TRUE
  ELSE IF Head(a) # Head(b) THEN Ord(Head(a)) < Ord(Head(b))
  ELSE StrLess(Tail(a), Tail(b))

\* the list with x put before the first element greater than it
RECURSIVE Insert(_, _)
Insert(x, l) ==
  IF l = <<>> THEN <<x>>
  ELSE IF StrLess(x, Head(l)) THEN <<x>> \o l
  ELSE <<Head(l)>> \o Insert(x, Tail(l))

\* sorted(l)
RECURSIVE Sorted(_)
Sorted(l) == IF l = <<>> THEN <<>> ELSE Insert(l[Len(l)], Sorted(SubSeq(l, 1, Len(l) - 1)))

\* CATEGORIES:swimmer,biker
parse_categories_tag(category_line) ==
  LET value == Join(Rest(Split(category_line, KEY_VALUE_SEPARATOR)), <<>>)
  IN  Returns(TupleV(Sorted(Split(value, ","))))

\* CLIENTPIDMAP;urn:value
parse_clientpidmap_tag(clientpidmap_line) ==
  LET clientpidmap_split == Split(clientpidmap_line, TAG_FIELD_SEPARATOR)
      head == Split(clientpidmap_split[1], KEY_VALUE_SEPARATOR)
  IN  IF Len(clientpidmap_split) < 2 \/ Len(head) < 2 THEN Raises("IndexError")
      ELSE Returns(DictV(Single(head[2], clientpidmap_split[2])))

parse_email_tag(email_line) == helper_match_generic_label_and_types(email_line)

\* GEO:lat;lon or GEO;TYPE=work:geo:lat,lon
parse_geo_tag(geo_line) ==
  LET geo_line_split == Split(geo_line, KEY_VALUE_SEPARATOR)
      pair == IF Len(geo_line_split) = 2
              THEN Split(geo_line_split[2], TAG_FIELD_SEPARATOR)
              ELSE IF Len(geo_line_split) = 3
              THEN Split(geo_line_split[3], ",")
              ELSE << <<>>, <<>> >>
  IN  IF Len(pair) # 2 THEN Raises("ValueError")
      ELSE Returns(DictV([k \in {<<"l","a","t","i","t","u","d","e">>, <<"l","o","n","g","i","t","u","d","e">>} |->
                            IF k = <<"l","a","t","i","t","u","d","e">> THEN pair[1] ELSE pair[2]]))

\* IMPP;TYPE=xmpp:handle@example.com
parse_instant_messenger_handle_tag(impp_line) ==
  LET parts == Split(impp_line, KEY_VALUE_SEPARATOR)
  IN  IF Len(parts) # 3 THEN Raises("ValueError")
      ELSE Returns(DictV([k \in {<<"t","y","p","e">>, <<"h","a","n","d","l","e">>} |->
                            IF k = <<"t","y","p","e">> THEN parts[2] ELSE parts[3]]))

parse_mailing_label_tag(label_line) == helper_match_generic_label_and_types(label_line)

\* MEMBER;VALUE=uri:urn:uuid:...
parse_member_tag(member_line) ==
  LET member_line_split == Split(member_line, KEY_VALUE_SEPARATOR)
  IN  IF Len(member_line_split) < 2 THEN Raises("IndexError")
      ELSE Returns(DictV(Single(member_line_split[2],
             Join(SubSeq(member_line_split, 3, Len(member_line_split)),
                  <<KEY_VALUE_SEPARATOR>>))))

subname_key_types ==
  << <<"f","a","m","i","l","y","_","n","a","m","e">>, <<"g","i","v","e","n","_","n","a","m","e">>, <<"a","d","d","i","t","i","o","n","a","l","_","m","i","d","d","l","e","_","n","a","m","e","s">>,
     <<"h","o","n","o","r","i","f","i","c","_","p","r","e","f","i","x","e","s">>, <<"h","o","n","o","r","i","f","i","c","_","s","u","f","f","i","x","e","s">> >>

\* N:Doe;John;F;; (family;given;additional;prefix;suffix)
parse_name_tag(name_line) ==
  helper_match_subkey_types_and_values(
    subname_key_types, Split(name_line, TAG_FIELD_SEPARATOR), TRUE)

\* the values of the name dict concatenated in the order they were inserted,
\* which is the order of subname_key_types
return_name_tag_formatted(name_tag_field) ==
  LET present == SelectSeq(subname_key_types, LAMBDA k : k \in DOMAIN name_tag_field)
  IN  Join([i \in 1..Len(present) |-> name_tag_field[present[i]]], <<>>)

sub_org_key_types ==
  << <<"o","r","g","a","n","i","z","a","t","i","o","n","_","n","a","m","e">>, <<"c","o","l","l","e","c","t","i","v","e","_","o","r","g","a","n","i","z","a","t","i","o","n","_","n","a","m","e">>,
     <<"o","r","g","a","n","i","z","a","t","i","o","n","a","l","_","u","n","i","t","_","n","a","m","e">> >>

\* ORG:Acme Corp, or ORG:name;collective;unit
parse_organization_tag(organization_line) ==
  LET organization_line_split == Split(organization_line, TAG_FIELD_SEPARATOR)
      byKV == Split(organization_line, KEY_VALUE_SEPARATOR)
  IN  IF Len(organization_line_split) = 1
      THEN IF Len(byKV) < 2 THEN Raises("IndexError") ELSE Returns(StrV(byKV[2]))
      ELSE helper_match_subkey_types_and_values(
             sub_org_key_types, organization_line_split, TRUE)

parse_related_tag(related_line) == helper_match_generic_label_and_types(related_line)

parse_telephone_tag(telephone_textline) ==
  helper_match_generic_label_and_types(telephone_textline)

\* UID:urn:uuid:...
parse_uuid_tag(uuid_textline) ==
  LET uid_line_split == Split(uuid_textline, KEY_VALUE_SEPARATOR)
  IN  IF Len(uid_line_split) < 2 THEN Raises("IndexError")
      ELSE Returns(DictV(Single(uid_line_split[2],
             Join(SubSeq(uid_line_split, 3, Len(uid_line_split)),
                  <<KEY_VALUE_SEPARATOR>>))))

(***************************************************************************)
(* vcard_multimedia_helper.py: names                                       *)
(***************************************************************************)
MULTIMEDIA_TAG_TAG_TYPE_KEY == <<"t","a","g","_","t","y","p","e">>
MULTIMEDIA_TAG_TAG_DATA_KEY == <<"t","a","g","_","d","a","t","a">>
MULTIMEDIA_TAG_TAG_URL_KEY == <<"t","a","g","_","u","r","l">>
MULTIMEDIA_TAG_TAG_MIME_TYPE_KEY == <<"t","a","g","_","m","i","m","e","_","t","y","p","e">>

get_advanced_key_names == << <<"K","E","Y">>, <<"L","O","G","O">>, <<"P","H","O","T","O">>, <<"S","O","U","N","D">> >>

get_multimedia_tag_list ==
  << MULTIMEDIA_TAG_TAG_TYPE_KEY, MULTIMEDIA_TAG_TAG_DATA_KEY,
     MULTIMEDIA_TAG_TAG_URL_KEY, MULTIMEDIA_TAG_TAG_MIME_TYPE_KEY >>

\* the four slots [tag_type, tag_data, tag_url, tag_mime_type] the branches of
\* parse_multimedia_tag fill, or the error one of them raises
MultimediaSlots(multimedia_tag_line) ==
  LET split == Split(multimedia_tag_line, TAG_FIELD_SEPARATOR)
      Slots(ty, da, ur, mi) == [exc |-> "none", slots |-> <<ty, da, ur, mi>>]
      Fails(e) == [exc |-> e, slots |-> <<>>]
  IN  IF Len(split) = 3
      THEN LET third == Split(split[3], KEY_VALUE_SEPARATOR)
               byEq  == Split(split[2], TYPE_ASSIGNMENT_OR_LABEL_SEPARATOR)
           IN  IF Contains(split[2], TYPE_ASSIGNMENT_OR_LABEL_SEPARATOR)
               THEN IF split[2] = <<"E","N","C","O","D","I","N","G","=","B","A","S","E","6","4">>
                    THEN IF Len(third) # 2 THEN Fails("ValueError")
                         ELSE Slots(third[1], third[2], <<>>, <<>>)
                    ELSE IF Len(third) < 2 THEN Fails("IndexError")
                         ELSE Slots(byEq[2], third[2], <<>>, <<>>)
               ELSE IF Len(third) < 2 THEN Fails("IndexError")
                    ELSE Slots(third[1], third[2], <<>>, <<>>)
      ELSE IF Len(split) = 2
      THEN LET decl == Split(split[2], KEY_VALUE_SEPARATOR)
               byEq == Split(decl[1], TYPE_ASSIGNMENT_OR_LABEL_SEPARATOR)
               byComma == Split(split[2], ",")
               head == Split(split[1], KEY_VALUE_SEPARATOR)
           IN  IF StartsWith(split[2], <<"T","Y","P","E">>)
               THEN IF Len(byEq) < 2 \/ Len(decl) < 2 THEN Fails("IndexError")
                    ELSE Slots(byEq[2], <<>>, decl[2], <<>>)
               ELSE IF StartsWith(split[2], <<"M","E","D","I","A","T","Y","P","E">>)
               THEN IF Len(byEq) < 2 \/ Len(decl) < 2 THEN Fails("IndexError")
                    ELSE Slots(<<>>, <<>>, decl[2], byEq[2])
               ELSE IF StartsWith(split[2], <<"b","a","s","e","6","4">>)
               THEN IF Len(byComma) < 2 THEN Fails("IndexError")
                    ELSE Slots(<<>>, byComma[2], <<>>, head[Len(head)])
               ELSE Slots(decl[1], <<>>,
                          Join(Rest(decl), <<KEY_VALUE_SEPARATOR>>), <<>>)
      ELSE Fails("ValueError")

\* PHOTO, SOUND, LOGO or KEY, the tag name removed
parse_multimedia_tag(multimedia_tag_line) ==
  LET r == MultimediaSlots(multimedia_tag_line)
  IN  IF r.exc # "none" THEN Raises(r.exc)
      ELSE helper_match_subkey_types_and_values(
             get_multimedia_tag_list, r.slots, FALSE)

(***************************************************************************)
(* contacts_vcard_extractor.py: the line parser                            *)
(***************************************************************************)
CONTACT_ID_KEY == <<"N">>
CONTACT_SECONDARY_ID_KEY == <<"F","N">>
BEGIN_VCARD == <<"B","E","G","I","N",":","V","C","A","R","D">>
END_VCARD == <<"E","N","D",":","V","C","A","R","D">>
RANDOM_FILENAME_LENGTH == 10

\* the keys of the dispatch table, in the order the dict holds them
FIELD_PARSERS ==
  << <<"A","D","R">>, <<"C","A","T","E","G","O","R","I","E","S">>, <<"C","L","I","E","N","T","P","I","D","M","A","P">>, <<"E","M","A","I","L">>, <<"G","E","O">>, <<"I","M","P","P">>,
     <<"L","A","B","E","L">>, <<"M","E","M","B","E","R">>, <<"N">>, <<"O","R","G">>, <<"R","E","L","A","T","E","D">>, <<"T","E","L">>, <<"U","I","D">> >>

\* FIELD_PARSERS[field_prefix](file_line)
parser_func(field_prefix, file_line) ==
  CASE field_prefix = <<"A","D","R">> -> parse_address_tag(file_line)
    [] field_prefix = <<"C","A","T","E","G","O","R","I","E","S">> -> parse_categories_tag(file_line)
    [] field_prefix = <<"C","L","I","E","N","T","P","I","D","M","A","P">> -> parse_clientpidmap_tag(file_line)
    [] field_prefix = <<"E","M","A","I","L">> -> parse_email_tag(file_line)
    [] field_prefix = <<"G","E","O">> -> parse_geo_tag(file_line)
    [] field_prefix = <<"I","M","P","P">> -> parse_instant_messenger_handle_tag(file_line)
    [] field_prefix = <<"L","A","B","E","L">> -> parse_mailing_label_tag(file_line)
    [] field_prefix = <<"M","E","M","B","E","R">> -> parse_member_tag(file_line)
    [] field_prefix = <<"N">> -> parse_name_tag(file_line)
    [] field_prefix = <<"O","R","G">> -> parse_organization_tag(file_line)
    [] field_prefix = <<"R","E","L","A","T","E","D">> -> parse_related_tag(file_line)
    [] field_prefix = <<"T","E","L">> -> parse_telephone_tag(file_line)
    [] field_prefix = <<"U","I","D">> -> parse_uuid_tag(file_line)

\* the index of the first key of keys that s starts with, 0 when there is none
FirstPrefix(keys, s) ==
  LET hits == {i \in 1..Len(keys) : StartsWith(s, keys[i])}
  IN  IF hits = {} THEN 0 ELSE CHOOSE i \in hits : \A j \in hits : i <= j

\* any(line.startswith(key) for key in get_advanced_key_names())
StartsMultimedia(line) == FirstPrefix(get_advanced_key_names, line) # 0

\* the dict of the one field the line holds ({} for an unknown tag), or the
\* error its parser raises: [exc, c]
parse_vcard_line(file_line) ==
  LET simple == FirstPrefix(SIMPLE_KEYS, file_line)
      field  == FirstPrefix(FIELD_PARSERS, file_line)
      media  == FirstPrefix(get_advanced_key_names, file_line)
      Field(k, r) == IF r.exc # "none" THEN [exc |-> r.exc, c |-> EmptyDict]
                     ELSE [exc |-> "none", c |-> Single(k, r.v)]
  IN  IF simple # 0
      THEN Field(SIMPLE_KEYS[simple], Returns(StrV(parse_simple_tag(file_line))))
      ELSE IF field # 0
      THEN Field(FIELD_PARSERS[field], parser_func(FIELD_PARSERS[field], file_line))
      ELSE IF media # 0
      THEN LET key == get_advanced_key_names[media]
               tag_content == SubSeq(file_line, Len(key) + 1, Len(file_line))
           IN  Field(key, parse_multimedia_tag(tag_content))
      ELSE [exc |-> "none", c |-> EmptyDict]

\* the strings random.sample(string.ascii_letters, 10) is drawn from here:
\* ten distinct letters
RandomNames == { <<"a","b","c","d","e","f","g","h","i","j">>, <<"Q","R","S","T","U","V","W","X","Y","Z">> }

\* get_contact_identifier with FN looked up before N
get_contact_identifier_fn_first(contact, rnd) ==
  IF CONTACT_SECONDARY_ID_KEY \in DOMAIN contact
  THEN contact[CONTACT_SECONDARY_ID_KEY].s
  ELSE IF CONTACT_ID_KEY \in DOMAIN contact
  THEN return_name_tag_formatted(contact[CONTACT_ID_KEY].d)
  ELSE rnd

\* the name used for the files of a contact; rnd is the random string drawn
\* when the contact has neither N nor FN
get_contact_identifier(contact, rnd) ==
  IF CONTACT_ID_KEY \in DOMAIN contact
  THEN return_name_tag_formatted(contact[CONTACT_ID_KEY].d)
  ELSE IF CONTACT_SECONDARY_ID_KEY \in DOMAIN contact
  THEN contact[CONTACT_SECONDARY_ID_KEY].s
  ELSE rnd

(***************************************************************************)
(* The file system and the network, as the decoder uses them.  A path is   *)
(* a str; fs.dirs is the set of directories that exist besides the working *)
(* directory "", fs.disk maps each regular file to its bytes.              *)
(***************************************************************************)
\* os.path.join(a, b)
PathJoin(a, b) ==
  IF StartsWith(b, <<"/">>) THEN b
  ELSE IF a = <<>> \/ EndsWith(a, <<"/">>) THEN a \o b
  ELSE a \o <<"/">> \o b

\* os.path.dirname(p)
Dirname(p) ==
  LET slashes == {i \in 1..Len(p) : p[i] = "/"}
      last == IF slashes = {} THEN 0 ELSE CHOOSE i \in slashes : \A j \in slashes : j <= i
  IN  IF last = 0 THEN <<>> ELSE IF last = 1 THEN <<"/">> ELSE SubSeq(p, 1, last - 1)

\* os.path.basename(p)
Basename(p) ==
  LET slashes == {i \in 1..Len(p) : p[i] = "/"}
      last == IF slashes = {} THEN 0 ELSE CHOOSE i \in slashes : \A j \in slashes : j <= i
  IN  SubSeq(p, last + 1, Len(p))

\* the standard base64 alphabet; the value of a character is its index - 1
B64Alphabet ==
  <<"A","B","C","D","E","F","G","H","I","J","K","L","M","N","O","P","Q","R","S","T","U","V","W","X","Y","Z","a","b","c","d","e","f","g","h","i","j","k","l","m","n","o","p","q","r","s","t","u","v","w","x","y","z","0","1","2","3","4","5","6","7","8","9","+","/">>

B64Value(c) == (CHOOSE i \in 1..64 : B64Alphabet[i] = c) - 1

\* binascii.a2b_base64 in its lenient mode: characters outside the alphabet
\* are skipped, a pad sequence that completes the quad ends the input, and
\* input that stops inside a quad is an error
RECURSIVE a2b_base64(_, _, _, _, _)
a2b_base64(s, quad_pos, leftchar, pads, out) ==
  IF s = <<>>
  THEN IF quad_pos # 0 THEN [exc |-> "binascii.Error", bytes |-> <<>>]
       ELSE [exc |-> "none", bytes |-> out]
  ELSE LET c == Head(s)
           v == B64Value(c)
       IN  IF c = "="
           THEN IF quad_pos >= 2 /\ quad_pos + pads + 1 >= 4
                THEN [exc |-> "none", bytes |-> out]
                ELSE a2b_base64(Tail(s), quad_pos, leftchar,
                                IF quad_pos >= 2 THEN pads + 1 ELSE pads, out)
           ELSE IF ~Contains(B64Alphabet, c)
           THEN a2b_base64(Tail(s), quad_pos, leftchar, pads, out)
           ELSE CASE quad_pos = 0 -> a2b_base64(Tail(s), 1, v, 0, out)
                  [] quad_pos = 1 ->
                       a2b_base64(Tail(s), 2, v % 16, 0,
                                  Append(out, (leftchar * 4 + v \div 16) % 256))
                  [] quad_pos = 2 ->
                       a2b_base64(Tail(s), 3, v % 4, 0,
                                  Append(out, (leftchar * 16 + v \div 4) % 256))
                  [] quad_pos = 3 ->
                       a2b_base64(Tail(s), 0, 0, 0,
                                  Append(out, (leftchar * 64 + v) % 256))

\* base64.b64decode(s)
b64decode(s) == a2b_base64(s, 0, 0, 0, <<>>)

\* what requests.get answers: a success with a body, a non-success status,
\* or a transport error; the network maps each URL fetched to its answer
Responses ==
  { [kind |-> "ok", body |-> <<104, 105>>],
    [kind |-> "status", body |-> <<>>],
    [kind |-> "transport", body |-> <<>>] }

\* open(output_filename, "wb") then the download or the decoding: the file
\* system afterwards and the error raised, [exc, fs].  The file is created
\* empty before its content is obtained.
decode_multimedia_data_field(data_or_url, is_url, output_filename, fs, net) ==
  LET opened  == [fs EXCEPT !.disk = Update(fs.disk, Single(output_filename, <<>>))]
      decoded == b64decode(data_or_url)
      response == net[data_or_url]
      Wrote(bytes) ==
        [exc |-> "none",
         fs |-> [fs EXCEPT !.disk = Update(fs.disk, Single(output_filename, bytes))]]
  IN  IF output_filename \in fs.dirs
      THEN [exc |-> "IsADirectoryError", fs |-> fs]
      ELSE IF Dirname(output_filename) \notin fs.dirs \cup {<<>>}
      THEN [exc |-> "FileNotFoundError", fs |-> fs]
      ELSE IF is_url
      THEN CASE response.kind = "transport" ->
                  [exc |-> "ConnectionError", fs |-> opened]
             [] response.kind = "status" -> [exc |-> "RuntimeError", fs |-> opened]
             [] response.kind = "ok" -> Wrote(response.body)
      ELSE IF decoded.exc # "none" THEN [exc |-> decoded.exc, fs |-> opened]
      ELSE Wrote(decoded.bytes)

\* the file extension of one multimedia dict: [exc, ext]
FileExtension(m) ==
  IF MULTIMEDIA_TAG_TAG_TYPE_KEY \in DOMAIN m
  THEN [exc |-> "none", ext |-> m[MULTIMEDIA_TAG_TAG_TYPE_KEY]]
  ELSE IF MULTIMEDIA_TAG_TAG_MIME_TYPE_KEY \in DOMAIN m
  THEN LET parts == Split(m[MULTIMEDIA_TAG_TAG_MIME_TYPE_KEY], "/")
       IN  IF Len(parts) < 2 THEN [exc |-> "IndexError", ext |-> <<>>]
           ELSE [exc |-> "none", ext |-> parts[2]]
  ELSE [exc |-> "ValueError", ext |-> <<>>]

\* the name of the file written for one multimedia dict
OutputFilename(base_filename, file_extension) ==
  Remove(base_filename, ".") \o <<".">> \o file_extension

\* the loop of extract_key_multimedia over the key names keys: [exc, fs].
\* It stops at the first error and keeps what was written before it.
RECURSIVE ExtractKeys(_, _, _, _, _)
ExtractKeys(keys, contact, base_filename, fs, net) ==
  IF keys = <<>> THEN [exc |-> "none", fs |-> fs]
  ELSE IF Head(keys) \notin DOMAIN contact
  THEN ExtractKeys(Tail(keys), contact, base_filename, fs, net)
  ELSE LET m == contact[Head(keys)].d
           e == FileExtension(m)
           is_url == MULTIMEDIA_TAG_TAG_URL_KEY \in DOMAIN m
           one == decode_multimedia_data_field(
                    IF is_url THEN m[MULTIMEDIA_TAG_TAG_URL_KEY]
                    ELSE m[MULTIMEDIA_TAG_TAG_DATA_KEY],
                    is_url, OutputFilename(base_filename, e.ext), fs, net)
       IN  IF e.exc # "none" THEN [exc |-> e.exc, fs |-> fs]
           ELSE IF ~is_url /\ MULTIMEDIA_TAG_TAG_DATA_KEY \notin DOMAIN m
           THEN [exc |-> "KeyError", fs |-> fs]
           ELSE IF one.exc # "none" THEN one
           ELSE ExtractKeys(Tail(keys), contact, base_filename, one.fs, net)

extract_key_multimedia(contact, base_filename, fs, net) ==
  ExtractKeys(get_advanced_key_names, contact, base_filename, fs, net)

generate_multimedia_of_contact(contact, output_dir, fs, net, rnd) ==
  extract_key_multimedia(
    contact, PathJoin(output_dir, get_contact_identifier(contact, rnd)), fs, net)

\* the URLs the extraction of a contact may fetch
UrlsOf(contact) ==
  { contact[k].d[MULTIMEDIA_TAG_TAG_URL_KEY] :
      k \in { x \in DOMAIN contact :
                /\ \E i \in 1..Len(get_advanced_key_names) : get_advanced_key_names[i] = x
                /\ MULTIMEDIA_TAG_TAG_URL_KEY \in DOMAIN contact[x].d } }

(***************************************************************************)
(* The inputs of the model.                                                *)
(***************************************************************************)
\* the lines a .vcf file is made of, as readlines() returns them
FileLines ==
  { <<"B","E","G","I","N",":","V","C","A","R","D","\n">>, <<"E","N","D",":","V","C","A","R","D","\n">>, <<"F","N",":","J",".","D","\n">>, <<"P","H","O","T","O",";","P",":","u","\n">>,
    <<"L","O","G","O",";","T","Y","P","E","=","P",";","E","N","C","O","D","I","N","G","=","b",":","Q","Q","=","=","\n">>, <<"N","A","M","E",":","x","\n">>, <<"T","E","L",":","+","1","2","3","\n">> }

\* the files of at most n lines
Files(n) == UNION { [1..k -> FileLines] : k \in 0..n }

\* the input path with what os.path says of it
Inputs ==
  { [path |-> <<"i","n">>, kind |-> "missing"], [path |-> <<"i","n">>, kind |-> "other"],
    [path |-> <<"i","n">>, kind |-> "dir"], [path |-> <<"a",".","v","c","f">>, kind |-> "file"],
    [path |-> <<"a",".","t","x","t">>, kind |-> "file"] }

\* the names os.listdir may return
DirEntries == { <<"a",".","v","c","f">>, <<"b",".","v","c","f">>, <<"n",".","t","x","t">> }

\* the listings of at most MaxFiles distinct entries, in any order
Listings ==
  { l \in UNION { [1..k -> DirEntries] : k \in 0..MaxFiles } :
      \A i, j \in 1..Len(l) : i # j => l[i] # l[j] }

\* the output directories, and the directories that exist beforehand
OutputDirs == { <<"o","d">>, <<"o",".","d">> }
InitialDirs == { {}, { <<"o","d">> } }

(***************************************************************************)
(* The state.                                                              *)
(***************************************************************************)
VARIABLES
  pc,                \* where parse_contacts_from_vcf_files stands
  vcf_files_dir,     \* its first argument
  input_kind,        \* what os.path.exists / isfile / isdir say of it
  output_media_dir,  \* its second argument
  fs,                \* the file system: [dirs, disk]
  fs0,               \* the file system when the function was called
  files_to_process,  \* the paths of the .vcf files to parse
  file_idx,          \* the position of the for loop in files_to_process
  filename,          \* the local of the listing loop: [bound, name]
  all_contacts,      \* the contacts of the files parsed so far
  stdout,            \* what was printed
  asm,               \* the locals of the running _parse_vcf_file
  exc,               \* the exception in flight: [type, site]
  lines_read,        \* the number of lines read so far
  line,              \* the argument of parse_vcard_line, called on its own
  result,            \* what that call gave
  sms_pc,            \* where extract_sms_messages stands
  sms_input_kind,    \* what os.path.exists / isdir say of sms_xml_dir
  output_dir,        \* its second argument
  sms_files,         \* what os.listdir(sms_xml_dir) returned
  sms_file_idx,      \* the position of the for loop in it
  context,           \* the end events iterparse has still to deliver
  all_messages,      \* the message entries collected
  num_sms,           \* the number of SMS entries collected
  num_mms_text,      \* the number of MMS text entries collected
  events_read,       \* the number of events read so far
  call_pc,           \* where create_call_log stands
  calls_input_kind,  \* what the file system says of calls_xml_dir
  call_output_dir,   \* its second argument: [none, path]
  calls_files,       \* what os.listdir(calls_xml_dir) returned
  calls_file_idx,    \* the position of the for loop in it
  calls_context,     \* the end events iterparse has still to deliver
  all_calls_list,    \* the call entries kept
  call_timestamps,   \* the timestamps of the entries kept
  num_calls,         \* the number of entries kept
  calls_read         \* the number of events read so far

vars ==
  << pc, vcf_files_dir, input_kind, output_media_dir, fs, fs0, files_to_process,
     file_idx, filename, all_contacts, stdout, asm, exc, lines_read, line, result,
     sms_pc, sms_input_kind, output_dir, sms_files, sms_file_idx, context,
     all_messages, num_sms, num_mms_text, events_read,
     call_pc, calls_input_kind, call_output_dir, calls_files, calls_file_idx,
     calls_context, all_calls_list, call_timestamps, num_calls, calls_read >>

\* the state of extract_sms_messages
smsOnly ==
  << sms_pc, sms_input_kind, output_dir, sms_files, sms_file_idx, context,
     all_messages, num_sms, num_mms_text, events_read >>

\* extract_sms_messages has not been called
SmsNotCalled ==
  /\ sms_pc = "not called"
  /\ sms_input_kind = "missing"
  /\ output_dir = <<>>
  /\ sms_files = <<>>
  /\ sms_file_idx = 1
  /\ context = <<>>
  /\ all_messages = <<>>
  /\ num_sms = 0
  /\ num_mms_text = 0
  /\ events_read = 0

\* the state of create_call_log
callOnly ==
  << call_pc, calls_input_kind, call_output_dir, calls_files, calls_file_idx,
     calls_context, all_calls_list, call_timestamps, num_calls, calls_read >>

\* create_call_log has not been called
CallsNotCalled ==
  /\ call_pc = "not called"
  /\ calls_input_kind = "missing"
  /\ call_output_dir = [none |-> TRUE, path |-> <<>>]
  /\ calls_files = <<>>
  /\ calls_file_idx = 1
  /\ calls_context = <<>>
  /\ all_calls_list = <<>>
  /\ call_timestamps = {}
  /\ num_calls = 0
  /\ calls_read = 0

NoException == [type |-> "none", site |-> "none"]
NoResult == [exc |-> "not called", c |-> EmptyDict]
Unbound == [bound |-> FALSE, name |-> <<>>]

\* the locals of _parse_vcf_file once the file is read
Frame(lines) ==
  [ vcf_file_lines |-> lines, line_num |-> 0, curr_contact |-> EmptyDict,
    currently_in_contact |-> FALSE, has_multimedia |-> FALSE,
    all_contacts |-> <<>> ]

NoFrame == Frame(<<>>)

Printed(msg, name, n) == [msg |-> msg, name |-> name, n |-> n]

Init ==
  /\ pc = "call"
  /\ \E i \in Inputs : vcf_files_dir = i.path /\ input_kind = i.kind
  /\ output_media_dir \in OutputDirs
  /\ \E d \in InitialDirs : fs = [dirs |-> d, disk |-> EmptyDict]
  /\ fs0 = fs
  /\ files_to_process = <<>>
  /\ file_idx = 1
  /\ filename = Unbound
  /\ all_contacts = <<>>
  /\ stdout = <<>>
  /\ asm = NoFrame
  /\ exc = NoException
  /\ lines_read = 0
  /\ line = <<>>
  /\ result = NoResult
  /\ SmsNotCalled
  /\ CallsNotCalled

(***************************************************************************)
(* parse_contacts_from_vcf_files: the checks before the loop               *)
(***************************************************************************)
driverOnly == << smsOnly, callOnly, asm, exc, lines_read, line, result, vcf_files_dir, input_kind,
                 output_media_dir, fs0, all_contacts, file_idx >>

\* the input path does not exist: a message, and the function returns
InputMissing ==
  /\ pc = "call"
  /\ input_kind = "missing"
  /\ stdout' = Append(stdout, Printed("input path does not exist", vcf_files_dir, 0))
  /\ pc' = "done"
  /\ UNCHANGED << fs, files_to_process, filename, driverOnly >>

\* os.makedirs(output_media_dir, exist_ok=True) on fs
MakeDirs(f) == [f EXCEPT !.dirs = @ \cup {output_media_dir}]

\* os.makedirs raises OSError: a message, and the function returns
OutputDirFails ==
  /\ pc = "call"
  /\ input_kind # "missing"
  /\ output_media_dir \notin fs.dirs
  /\ stdout' = Append(stdout, Printed("cannot create output directory", output_media_dir, 0))
  /\ pc' = "done"
  /\ UNCHANGED << fs, files_to_process, filename, driverOnly >>

\* a single file that does not end in .vcf
NotVcfFile ==
  /\ pc = "call"
  /\ input_kind = "file"
  /\ ~EndsWith(vcf_files_dir, <<".","v","c","f">>)
  /\ fs' = MakeDirs(fs)
  /\ stdout' = Append(stdout, Printed("input file does not match", vcf_files_dir, 0))
  /\ pc' = "done"
  /\ UNCHANGED << files_to_process, filename, driverOnly >>

\* a path that exists and is neither a file nor a directory
NotFileNorDir ==
  /\ pc = "call"
  /\ input_kind = "other"
  /\ fs' = MakeDirs(fs)
  /\ stdout' = Append(stdout, Printed("neither a file nor a directory", vcf_files_dir, 0))
  /\ pc' = "done"
  /\ UNCHANGED << files_to_process, filename, driverOnly >>

\* a single .vcf file: it is the only file to process
SingleFile ==
  /\ pc = "call"
  /\ input_kind = "file"
  /\ EndsWith(vcf_files_dir, <<".","v","c","f">>)
  /\ fs' = MakeDirs(fs)
  /\ files_to_process' = <<vcf_files_dir>>
  /\ pc' = "loop"
  /\ UNCHANGED << stdout, filename, driverOnly >>

\* a directory: the entries of its listing that end in .vcf, in listing
\* order; filename keeps the last entry listed
Directory ==
  /\ pc = "call"
  /\ input_kind = "dir"
  /\ fs' = MakeDirs(fs)
  /\ \E listing \in Listings :
       /\ files_to_process' =
            LET vcf == SelectSeq(listing, LAMBDA f : EndsWith(f, <<".","v","c","f">>))
            IN  [i \in 1..Len(vcf) |-> PathJoin(vcf_files_dir, vcf[i])]
       /\ filename' = IF listing = <<>> THEN filename
                      ELSE [bound |-> TRUE, name |-> listing[Len(listing)]]
  /\ pc' = "loop"
  /\ UNCHANGED << stdout, driverOnly >>

(***************************************************************************)
(* _parse_vcf_file                                                         *)
(***************************************************************************)
asmOnly == << smsOnly, callOnly, vcf_files_dir, input_kind, output_media_dir, fs0, files_to_process,
              file_idx, filename, all_contacts, stdout, lines_read, line, result >>

\* the next file of the loop is opened and read
OpenFile ==
  /\ pc = "loop"
  /\ file_idx <= Len(files_to_process)
  /\ \E content \in Files(MaxLines - lines_read) :
       /\ asm' = Frame(content)
       /\ lines_read' = lines_read + Len(content)
  /\ pc' = "parse"
  /\ UNCHANGED << vcf_files_dir, input_kind, output_media_dir, fs, fs0,
                  files_to_process, file_idx, filename, all_contacts, stdout,
                  exc, line, result, smsOnly, callOnly >>

InLoop == pc = "parse" /\ asm.line_num < Len(asm.vcf_file_lines)
line_content == asm.vcf_file_lines[asm.line_num + 1]
stripped_line == Strip(line_content)

\* raise e from the place site of _parse_vcf_file
Raise(e, site) == exc' = [type |-> e, site |-> site] /\ pc' = "except"

\* BeginLine without the check for a record already open
BeginLineUnchecked ==
  /\ InLoop
  /\ stripped_line = BEGIN_VCARD
  /\ asm' = [asm EXCEPT !.currently_in_contact = TRUE,
                         !.curr_contact = EmptyDict,
                         !.has_multimedia = FALSE,
                         !.line_num = @ + 1]
  /\ UNCHANGED << pc, exc, fs, asmOnly >>

\* a BEGIN:VCARD line
BeginLine ==
  /\ InLoop
  /\ stripped_line = BEGIN_VCARD
  /\ IF asm.currently_in_contact
     THEN Raise("ValueError", "nested BEGIN") /\ UNCHANGED asm
     ELSE /\ asm' = [asm EXCEPT !.currently_in_contact = TRUE,
                                !.curr_contact = EmptyDict,
                                !.has_multimedia = FALSE,
                                !.line_num = @ + 1]
          /\ UNCHANGED << pc, exc >>
  /\ UNCHANGED << fs, asmOnly >>

\* FinishContact with the append placed after the reset: the contact
\* appended is the empty one
FinishContactAfterReset(a) ==
  [a EXCEPT !.currently_in_contact = FALSE, !.all_contacts = Append(@, EmptyDict)]

\* END:VCARD inside a record: the record is closed and appended
FinishContact(a) ==
  [a EXCEPT !.currently_in_contact = FALSE,
            !.all_contacts = Append(@, a.curr_contact)]

\* the step to the next line without the reset: the contact and its flag
\* stay as they are
ResetContactKeeps(a) ==
  [a EXCEPT !.line_num = @ + 1]

\* the reset for the next contact, and the step to the next line
ResetContact(a) ==
  [a EXCEPT !.curr_contact = EmptyDict, !.has_multimedia = FALSE, !.line_num = @ + 1]

\* an END:VCARD line: the contact is appended, then its multimedia extracted
EndLine ==
  /\ InLoop
  /\ stripped_line = END_VCARD
  /\ IF ~asm.currently_in_contact
     THEN Raise("ValueError", "unmatched END") /\ UNCHANGED << asm, fs >>
     ELSE LET appended == FinishContact(asm)
          IN  IF asm.has_multimedia
              THEN \E net \in [UrlsOf(asm.curr_contact) -> Responses], rnd \in RandomNames :
                     LET r == generate_multimedia_of_contact(
                                asm.curr_contact, output_media_dir, fs, net, rnd)
                     IN  /\ fs' = r.fs
                         /\ IF r.exc # "none"
                            THEN Raise(r.exc, "extraction") /\ asm' = appended
                            ELSE asm' = ResetContact(appended) /\ UNCHANGED << pc, exc >>
              ELSE asm' = ResetContact(appended) /\ UNCHANGED << pc, exc, fs >>
  /\ UNCHANGED asmOnly

\* the lines from start_line joined until a blank line or a line with a
\* colon: [line, next]; start_line and next count from 0
RECURSIVE FoldLines(_, _, _)
FoldLines(vcf_file_lines, multimedia_tag_line, next_line_num) ==
  IF next_line_num < Len(vcf_file_lines)
     /\ Strip(vcf_file_lines[next_line_num + 1]) # <<>>
     /\ ~Contains(vcf_file_lines[next_line_num + 1], ":")
  THEN FoldLines(vcf_file_lines,
                 multimedia_tag_line \o Strip(vcf_file_lines[next_line_num + 1]),
                 next_line_num + 1)
  ELSE [line |-> Strip(multimedia_tag_line), next |-> next_line_num]

\* the field taken from its first line, the index left where it was
parse_multiline_multimedia_same_index(vcf_file_lines, start_line) ==
  [line |-> Strip(vcf_file_lines[start_line + 1]), next |-> start_line]

\* the field taken from its first line alone
parse_multiline_multimedia_one_line(vcf_file_lines, start_line) ==
  [line |-> Strip(vcf_file_lines[start_line + 1]), next |-> start_line + 1]

parse_multiline_multimedia(vcf_file_lines, start_line) ==
  FoldLines(vcf_file_lines, Strip(vcf_file_lines[start_line + 1]), start_line + 1)

\* MultimediaLine with the merge the other way round: a tag the contact
\* already holds keeps its value
MultimediaLineKeepsFirst ==
  /\ InLoop
  /\ stripped_line \notin {BEGIN_VCARD, END_VCARD}
  /\ asm.currently_in_contact
  /\ StartsMultimedia(line_content)
  /\ LET m == parse_multiline_multimedia(asm.vcf_file_lines, asm.line_num)
         new_contact_info == parse_vcard_line(m.line)
     IN  IF new_contact_info.exc # "none"
         THEN /\ Raise(new_contact_info.exc, "field")
              /\ asm' = [asm EXCEPT !.has_multimedia = TRUE]
         ELSE /\ asm' = [asm EXCEPT !.has_multimedia = TRUE,
                                    !.curr_contact = Update(new_contact_info.c, @),
                                    !.line_num = m.next]
              /\ UNCHANGED << pc, exc >>
  /\ UNCHANGED << fs, asmOnly >>

\* a line inside a record that starts with a multimedia key
MultimediaLine ==
  /\ InLoop
  /\ stripped_line \notin {BEGIN_VCARD, END_VCARD}
  /\ asm.currently_in_contact
  /\ StartsMultimedia(line_content)
  /\ LET m == parse_multiline_multimedia(asm.vcf_file_lines, asm.line_num)
         new_contact_info == parse_vcard_line(m.line)
     IN  IF new_contact_info.exc # "none"
         THEN /\ Raise(new_contact_info.exc, "field")
              /\ asm' = [asm EXCEPT !.has_multimedia = TRUE]
         ELSE /\ asm' = [asm EXCEPT !.has_multimedia = TRUE,
                                    !.curr_contact = Update(@, new_contact_info.c),
                                    !.line_num = m.next]
              /\ UNCHANGED << pc, exc >>
  /\ UNCHANGED << fs, asmOnly >>

\* any other line inside a record
FieldLine ==
  /\ InLoop
  /\ stripped_line \notin {BEGIN_VCARD, END_VCARD}
  /\ asm.currently_in_contact
  /\ ~StartsMultimedia(line_content)
  /\ LET new_contact_info == parse_vcard_line(stripped_line)
     IN  IF new_contact_info.exc # "none"
         THEN Raise(new_contact_info.exc, "field") /\ UNCHANGED asm
         ELSE /\ asm' = [asm EXCEPT !.curr_contact = Update(@, new_contact_info.c),
                                    !.line_num = @ + 1]
              /\ UNCHANGED << pc, exc >>
  /\ UNCHANGED << fs, asmOnly >>

\* a line outside a record, parsed as a field all the same
OutsideLineParsed ==
  /\ InLoop
  /\ stripped_line \notin {BEGIN_VCARD, END_VCARD}
  /\ ~asm.currently_in_contact
  /\ LET new_contact_info == parse_vcard_line(stripped_line)
     IN  IF new_contact_info.exc # "none"
         THEN Raise(new_contact_info.exc, "field") /\ UNCHANGED asm
         ELSE /\ asm' = [asm EXCEPT !.curr_contact = Update(@, new_contact_info.c),
                                    !.line_num = @ + 1]
              /\ UNCHANGED << pc, exc >>
  /\ UNCHANGED << fs, asmOnly >>

\* a line outside a record
OutsideLine ==
  /\ InLoop
  /\ stripped_line \notin {BEGIN_VCARD, END_VCARD}
  /\ ~asm.currently_in_contact
  /\ asm' = [asm EXCEPT !.line_num = @ + 1]
  /\ UNCHANGED << pc, exc, fs, asmOnly >>

\* the loop is over: the file ended inside a record, or the list is returned
EndOfFile ==
  /\ pc = "parse"
  /\ asm.line_num >= Len(asm.vcf_file_lines)
  /\ IF asm.currently_in_contact
     THEN Raise("ValueError", "unterminated")
     ELSE pc' = "returned" /\ UNCHANGED exc
  /\ UNCHANGED << asm, fs, asmOnly >>

(***************************************************************************)
(* parse_contacts_from_vcf_files: the loop over the files and the summary  *)
(***************************************************************************)
loopOnly == << smsOnly, callOnly, vcf_files_dir, input_kind, output_media_dir, fs, fs0,
               files_to_process, filename, lines_read, line, result >>

\* _parse_vcf_file returned: its contacts are added and counted
FileParsed ==
  /\ pc = "returned"
  /\ all_contacts' = all_contacts \o asm.all_contacts
  /\ stdout' = Append(stdout, Printed("parsed", Basename(files_to_process[file_idx]),
                                      Len(asm.all_contacts)))
  /\ file_idx' = file_idx + 1
  /\ asm' = NoFrame
  /\ pc' = "loop"
  /\ UNCHANGED << exc, loopOnly >>

\* FileFailed keeping the contacts the file had completed
FileFailedKeepsContacts ==
  /\ pc = "except"
  /\ filename.bound
  /\ stdout' = Append(stdout, Printed("error parsing", filename.name, 0))
  /\ exc' = NoException
  /\ file_idx' = file_idx + 1
  /\ all_contacts' = all_contacts \o asm.all_contacts
  /\ asm' = NoFrame
  /\ pc' = "loop"
  /\ UNCHANGED loopOnly

\* _parse_vcf_file raised and the handler prints the error with filename
FileFailed ==
  /\ pc = "except"
  /\ filename.bound
  /\ stdout' = Append(stdout, Printed("error parsing", filename.name, 0))
  /\ exc' = NoException
  /\ file_idx' = file_idx + 1
  /\ asm' = NoFrame
  /\ pc' = "loop"
  /\ UNCHANGED << all_contacts, loopOnly >>

\* _parse_vcf_file raised and filename was never assigned: the handler's
\* print raises UnboundLocalError, which leaves the function
HandlerRaises ==
  /\ pc = "except"
  /\ ~filename.bound
  /\ exc' = [type |-> "UnboundLocalError", site |-> "handler"]
  /\ asm' = NoFrame
  /\ pc' = "raised"
  /\ UNCHANGED << all_contacts, stdout, file_idx, loopOnly >>

\* the loop is over: the summary
Summary ==
  /\ pc = "loop"
  /\ file_idx > Len(files_to_process)
  /\ stdout' = Append(stdout,
                 IF all_contacts = <<>> THEN Printed("no contacts found", <<>>, 0)
                 ELSE Printed("total contacts parsed", <<>>, Len(all_contacts)))
  /\ pc' = "done"
  /\ UNCHANGED << all_contacts, file_idx, asm, exc, loopOnly >>

Next ==
  \/ InputMissing \/ OutputDirFails \/ NotVcfFile \/ NotFileNorDir
  \/ SingleFile \/ Directory
  \/ OpenFile \/ BeginLine \/ EndLine \/ MultimediaLine \/ FieldLine
  \/ OutsideLine \/ EndOfFile
  \/ FileParsed \/ FileFailed \/ HandlerRaises \/ Summary

Spec == Init /\ [][Next]_vars

(***************************************************************************)
(* parse_vcard_line called on its own, on one line                         *)
(***************************************************************************)
\* the tag names of the lines drawn: the 42 the parser knows and some others
UnknownTagNames == { <<"X","-","A">>, <<"N","A","M","E">>, <<"F","N","X">>, <<"T","E","L","E","X">>, <<"K","E","Y","S">> }

Range(f) == { f[i] : i \in DOMAIN f }

KnownTagNames ==
  Range(SIMPLE_KEYS) \cup Range(FIELD_PARSERS) \cup Range(get_advanced_key_names)

\* the values drawn: at most MaxValueLen characters, colons and semicolons included
ValueChars == { "a", ":", ";" }
Values == UNION { [1..k -> ValueChars] : k \in 0..MaxValueLen }

FreeLines ==
  { t \o <<KEY_VALUE_SEPARATOR>> \o v : t \in KnownTagNames \cup UnknownTagNames,
                                        v \in Values }

\* the parts of a line put together
Cat(parts) == Join(parts, <<>>)

\* the sequences of 1 to n elements of S
SeqsUpTo(S, n) == UNION { [1..k -> S] : k \in 1..n }

\* multimedia lines of the seven forms parse_multimedia_tag documents
MediaTypes == { <<"P">>, <<"J","P","E","G">> }
MimeTypes == { <<"i","m","a","g","e","/","P">> }
MediaUrls == { <<"u">>, <<"h","t","t","p",":","/","/","x","/","y",".","j","p","g">> }
MediaData == { <<"Q","Q","=","=">> }
Form1(tag, t, u) == Cat(<<tag, <<";">>, t, <<":">>, u>>)
Form2(tag, t, d) == Cat(<<tag, <<";">>, t, <<";","E","N","C","O","D","I","N","G","=","B","A","S","E","6","4",":">>, d>>)
Form2a(tag, t, d) == Cat(<<tag, <<";","E","N","C","O","D","I","N","G","=","B","A","S","E","6","4",";">>, t, <<":">>, d>>)
Form3(tag, t, u) == Cat(<<tag, <<";","T","Y","P","E","=">>, t, <<":">>, u>>)
Form4(tag, t, d) == Cat(<<tag, <<";","T","Y","P","E","=">>, t, <<";","E","N","C","O","D","I","N","G","=","b",":">>, d>>)
Form5(tag, m, u) == Cat(<<tag, <<";","M","E","D","I","A","T","Y","P","E","=">>, m, <<":">>, u>>)
Form6(tag, m, d) == Cat(<<tag, <<":","d","a","t","a",":">>, m, <<";","b","a","s","e","6","4",",">>, d>>)

MultimediaLines ==
  UNION { { Form1(tag, t, u), Form3(tag, t, u) } :
            tag \in Range(get_advanced_key_names), t \in MediaTypes, u \in MediaUrls }
  \cup UNION { { Form2(tag, t, d), Form2a(tag, t, d), Form4(tag, t, d) } :
                 tag \in Range(get_advanced_key_names), t \in MediaTypes, d \in MediaData }
  \cup UNION { { Form5(tag, m, u), Form6(tag, m, d) } :
                 tag \in Range(get_advanced_key_names), m \in MimeTypes,
                 u \in MediaUrls, d \in MediaData }

\* N lines of 1 to MaxComponents components
NameComponents == { <<>>, <<"K">>, <<"a",":","b">> }
NameLine(comps) == <<"N",":">> \o Join(comps, <<TAG_FIELD_SEPARATOR>>)
NameLines == { NameLine(c) : c \in SeqsUpTo(NameComponents, MaxComponents) }

\* ORG lines of 1 to MaxComponents - 2 components
OrgComponents == { <<>>, <<"A">>, <<"A",":","B">> }
OrgLine(comps) == <<"O","R","G",":">> \o Join(comps, <<TAG_FIELD_SEPARATOR>>)
OrgLines == { OrgLine(c) : c \in SeqsUpTo(OrgComponents, MaxComponents - 2) }

\* ADR lines with the label given as TYPE=<label> and bare
AdrLabels == { <<"h","o","m","e">> }
AdrComponents == { <<>>, <<"x">>, <<"1"," ","M">> }
AdrTyped(label, comps) ==
  Cat(<<<<"A","D","R",";","T","Y","P","E","=">>, label, <<":">>>>) \o Join(comps, <<TAG_FIELD_SEPARATOR>>)
AdrBare(label, comps) ==
  Cat(<<<<"A","D","R",";">>, label, <<":">>>>) \o Join(comps, <<TAG_FIELD_SEPARATOR>>)
AdrLines ==
  UNION { { AdrTyped(l, c), AdrBare(l, c) } :
            l \in AdrLabels, c \in SeqsUpTo(AdrComponents, MaxComponents - 2) }

\* EMAIL, LABEL, RELATED and TEL lines, the type given as TYPE=<t> and bare
GenericTags == { <<"E","M","A","I","L">>, <<"L","A","B","E","L">>, <<"R","E","L","A","T","E","D">>, <<"T","E","L">> }
GenericTypes == { <<"w">>, <<"a",",","b">> }
DataChars == { "a", ":", ";", "=" }
GenericData == UNION { [1..k -> DataChars] : k \in 0..MaxValueLen }
GenericTyped(tag, t, data) == Cat(<<tag, <<";","T","Y","P","E","=">>, t, <<":">>, data>>)
GenericBare(tag, t, data) == Cat(<<tag, <<";">>, t, <<":">>, data>>)
GenericLines ==
  UNION { { GenericTyped(tag, t, d), GenericBare(tag, t, d) } :
            tag \in GenericTags, t \in GenericTypes, d \in GenericData }

LineInputs ==
  FreeLines \cup MultimediaLines \cup NameLines \cup OrgLines \cup AdrLines
    \cup GenericLines

InitLine ==
  /\ pc = "line"
  /\ line \in LineInputs
  /\ result = NoResult
  /\ vcf_files_dir = <<>>
  /\ input_kind = "missing"
  /\ output_media_dir = <<>>
  /\ fs = [dirs |-> {}, disk |-> EmptyDict]
  /\ fs0 = fs
  /\ files_to_process = <<>>
  /\ file_idx = 1
  /\ filename = Unbound
  /\ all_contacts = <<>>
  /\ stdout = <<>>
  /\ asm = NoFrame
  /\ exc = NoException
  /\ lines_read = 0
  /\ SmsNotCalled
  /\ CallsNotCalled

ParseLine ==
  /\ pc = "line"
  /\ result' = parse_vcard_line(line)
  /\ pc' = "line done"
  /\ UNCHANGED << vcf_files_dir, input_kind, output_media_dir, fs, fs0,
                  files_to_process, file_idx, filename, all_contacts, stdout, asm,
                  exc, lines_read, line, smsOnly, callOnly >>

NextLine == ParseLine

SpecLine == InitLine /\ [][NextLine]_vars

(***************************************************************************)
(* Properties                                                              *)
(***************************************************************************)
IsBegin(l) == Strip(l) = BEGIN_VCARD
IsEnd(l) == Strip(l) = END_VCARD

\* the positions (from 1) of the lines of a file that satisfy P, in file order
PositionsOf(lines, P(_)) ==
  LET idx == [i \in 1..Len(lines) |-> i]
  IN  SelectSeq(idx, LAMBDA i : P(lines[i]))

\* BEGIN lines minus END lines among the first n lines
Depth(lines, n) ==
  Cardinality({i \in 1..n : IsBegin(lines[i])}) - Cardinality({i \in 1..n : IsEnd(lines[i])})

\* the markers are nested at depth 1 and every record is closed
WellNested(lines) ==
  /\ \A n \in 0..Len(lines) : Depth(lines, n) \in {0, 1}
  /\ Depth(lines, Len(lines)) = 0

\* the record assembled from the lines i .. e-1 (positions from 1) on top of acc
RECURSIVE Assembled(_, _, _, _)
Assembled(lines, i, e, acc) ==
  IF i >= e THEN acc
  ELSE IF StartsMultimedia(lines[i])
  THEN LET m == parse_multiline_multimedia(lines, i - 1)
       IN  Assembled(lines, m.next + 1, e, Update(acc, parse_vcard_line(m.line).c))
  ELSE Assembled(lines, i + 1, e, Update(acc, parse_vcard_line(Strip(lines[i])).c))

\* C1: when _parse_vcf_file returns, it returns exactly one record per
\* BEGIN/END pair of the file, the i-th record being the one assembled from
\* the lines between the i-th BEGIN and the i-th END; and a file whose markers
\* are properly nested fails only on a field or an extraction error.
C1_OneRecordPerPair ==
  LET lines  == asm.vcf_file_lines
      begins == PositionsOf(lines, IsBegin)
      ends   == PositionsOf(lines, IsEnd)
  IN  /\ pc = "returned" =>
           /\ WellNested(lines)
           /\ Len(asm.all_contacts) = Len(ends)
           /\ Len(begins) = Len(ends)
           /\ \A i \in 1..Len(ends) :
                asm.all_contacts[i] = Assembled(lines, begins[i] + 1, ends[i], EmptyDict)
      /\ (pc = "except" /\ WellNested(lines)) => exc.site \in {"field", "extraction"}

\* two different records returned in file order
C1_Witness ==
  /\ pc = "returned"
  /\ Len(asm.all_contacts) = 2
  /\ asm.all_contacts[1] # EmptyDict
  /\ asm.all_contacts[2] = EmptyDict

StructuralSites == {"nested BEGIN", "unmatched END", "unterminated"}

\* the line about to be read breaks the nesting, or the file ends in a record
BreaksNesting ==
  /\ pc = "parse"
  /\ LET lines == asm.vcf_file_lines
         d == Depth(lines, asm.line_num)
     IN  IF asm.line_num < Len(lines)
         THEN \/ IsBegin(lines[asm.line_num + 1]) /\ d = 1
              \/ IsEnd(lines[asm.line_num + 1]) /\ d = 0
         ELSE d = 1

\* C2: the nesting depth of the markers read is 0 or 1 in every state of the
\* parse; a BEGIN read inside a record, an END read outside a record and the
\* end of the file inside a record each raise a structural error, after which
\* _parse_vcf_file returns nothing: the contacts of the batch stay as they were.
C2_StructuralErrors ==
  /\ [](pc \in {"parse", "returned", "except"} =>
          /\ Depth(asm.vcf_file_lines, asm.line_num) \in {0, 1}
          /\ pc # "except" =>
               (asm.currently_in_contact <=> Depth(asm.vcf_file_lines, asm.line_num) = 1))
  /\ [][BreaksNesting => /\ pc' = "except"
                         /\ exc'.type = "ValueError"
                         /\ exc'.site \in StructuralSites]_vars
  /\ [][pc = "except" => pc' # "returned" /\ all_contacts' = all_contacts]_vars

\* a BEGIN read inside a record has raised
C2_Witness == pc = "except" /\ exc.site = "nested BEGIN"

\* C3: an error raised while parsing one file never leaves
\* parse_contacts_from_vcf_files, for a directory and for a single file alike
C3_ErrorNotPropagated == pc # "raised"

\* the input the function refuses
InvalidInput ==
  \/ input_kind \in {"missing", "other"}
  \/ input_kind = "file" /\ ~EndsWith(vcf_files_dir, <<".","v","c","f">>)

\* C4: on a missing input, an input that is neither file nor directory, or a
\* single file not ending in .vcf, the function returns having read no file
\* and having changed nothing in the file system, the output directory included
C4_InvalidInputChangesNothing ==
  (InvalidInput /\ pc = "done") => (fs = fs0 /\ lines_read = 0)

NetworkErrors == {"RuntimeError", "ConnectionError"}

\* a complete record lies after position n (from 1) of the file
RecordAfter(lines, n) ==
  \E i, j \in (n + 1)..Len(lines) : i < j /\ IsBegin(lines[i]) /\ IsEnd(lines[j])

\* C5: a failed fetch during one contact's extraction does not stop the
\* assembly of the contacts that follow it in the same file
C5_FetchErrorSparesFollowing ==
  ~ /\ pc = "except"
    /\ exc.site = "extraction"
    /\ exc.type \in NetworkErrors
    /\ RecordAfter(asm.vcf_file_lines, asm.line_num + 1)

\* C6: nothing is rolled back: the files and directories on disk only grow,
\* a file that raised leaves the disk as it is and adds none of its contacts
\* to the contacts counted, and the total reported is the number counted
C6_NoRollback ==
  /\ [][/\ DOMAIN fs.disk \subseteq DOMAIN fs'.disk
        /\ fs.dirs \subseteq fs'.dirs]_vars
  /\ [][pc = "except" => fs' = fs /\ all_contacts' = all_contacts]_vars
  /\ [](pc = "done" /\ stdout # <<>> /\ stdout[Len(stdout)].msg = "total contacts parsed"
          => stdout[Len(stdout)].n = Len(all_contacts))

\* the batch ended; its file was aborted after a contact's media was written
C6_Witness ==
  /\ pc = "done"
  /\ all_contacts = <<>>
  /\ \E i \in 1..Len(stdout) : stdout[i].msg = "error parsing"
  /\ \E f \in DOMAIN fs.disk : fs.disk[f] # <<>>

\* C7: parse_vcard_line(T + ":" + v) is {T: v} for every simple tag T and
\* every value v, colons included
C7_SimpleRoundTrip ==
  pc = "line done" =>
    \A i \in 1..Len(SIMPLE_KEYS) :
      LET T == SIMPLE_KEYS[i] \o <<KEY_VALUE_SEPARATOR>>
      IN  StartsWith(line, T) =>
            result = [exc |-> "none",
                      c |-> Single(SIMPLE_KEYS[i],
                                   StrV(SubSeq(line, Len(T) + 1, Len(line))))]

\* the tag name of a line: what precedes its first colon or semicolon
TagName(l) ==
  LET stops == {i \in 1..Len(l) : l[i] \in {KEY_VALUE_SEPARATOR, TAG_FIELD_SEPARATOR}}
  IN  IF stops = {} THEN l
      ELSE SubSeq(l, 1, (CHOOSE i \in stops : \A j \in stops : i <= j) - 1)

\* C8: a line whose tag name is none of the 42 known ones gives the empty
\* mapping and raises nothing
C8_UnknownTagIgnored ==
  (pc = "line done" /\ TagName(line) \notin KnownTagNames) =>
    result = [exc |-> "none", c |-> EmptyDict]

\* C9: every file the decoder wrote lies directly in the output directory
\* and its name holds one dot, the one before the extension
C9_FilesInOutputDir ==
  \A f \in DOMAIN fs.disk :
    /\ Dirname(f) = output_media_dir
    /\ Len(Split(Basename(f), ".")) = 2

\* the END line about to be read closes a contact whose extraction succeeds
ExtractionSucceeds ==
  /\ InLoop
  /\ IsEnd(line_content)
  /\ asm.currently_in_contact
  /\ asm.has_multimedia
  /\ pc' = "parse"

\* the bytes written for a multimedia dict: the decoded data, or a body fetched
ContentsOf(m) ==
  IF MULTIMEDIA_TAG_TAG_URL_KEY \in DOMAIN m
  THEN { r.body : r \in { x \in Responses : x.kind = "ok" } }
  ELSE { b64decode(m[MULTIMEDIA_TAG_TAG_DATA_KEY]).bytes }

\* C10: after a successful extraction each multimedia tag of the contact
\* has a file of its own on disk that holds its content
C10_OneFilePerTag ==
  [][ExtractionSucceeds =>
       LET tags == DOMAIN asm.curr_contact \cap Range(get_advanced_key_names)
       IN  \E g \in [tags -> DOMAIN fs'.disk] :
             /\ \A s, t \in tags : s # t => g[s] # g[t]
             /\ \A t \in tags : fs'.disk[g[t]] \in ContentsOf(asm.curr_contact[t].d)]_vars

(***************************************************************************)
(* _parse_vcf_file on a file of one record, its lines drawn from the forms *)
(* the field parsers document                                              *)
(***************************************************************************)
\* the largest number of lines between BEGIN:VCARD and END:VCARD
MaxFieldLines == 3

RecordFieldLines ==
  { l \o <<"\n">> :
      l \in { <<"N",":","K",";",";","F",";",";">>, <<"F","N",":","J",".","D">>,
              Form1(<<"P","H","O","T","O">>, <<"P">>, <<"u">>),
              Form1(<<"P","H","O","T","O">>, <<>>, <<"u">>),
              Form2(<<"P","H","O","T","O">>, <<"P">>, <<"Q","Q","=","=">>),
              Form2a(<<"P","H","O","T","O">>, <<"P">>, <<"Q","Q","=","=">>),
              Form3(<<"P","H","O","T","O">>, <<"P">>, <<"u">>),
              Form4(<<"L","O","G","O">>, <<"G">>, <<"Q","Q","=","=">>),
              Form5(<<"P","H","O","T","O">>, <<"i","m","a","g","e","/","P">>, <<"u">>),
              Form5(<<"P","H","O","T","O">>, <<"P">>, <<"u">>),
              Form5(<<"P","H","O","T","O">>, <<"a","/","b","/","c">>, <<"u">>),
              Form6(<<"S","O","U","N","D">>, <<"a","u","d","i","o","/","W">>, <<"Q","Q","=","=">>),
              <<" ">> \o Form1(<<"P","H","O","T","O">>, <<"P">>, <<"u">>),
              <<" ","Q","Q","=","=">>, <<>> } }

\* the files of one record
RecordFiles ==
  { <<BEGIN_VCARD \o <<"\n">>>> \o fields \o <<END_VCARD \o <<"\n">>>> :
      fields \in UNION { [1..k -> RecordFieldLines] : k \in 0..MaxFieldLines } }

\* the file in/a.vcf of a directory has just been opened and read
InitRecord ==
  /\ pc = "parse"
  /\ vcf_files_dir = <<"i","n">>
  /\ input_kind = "dir"
  /\ output_media_dir = <<"o","d">>
  /\ fs = [dirs |-> {output_media_dir}, disk |-> EmptyDict]
  /\ fs0 = fs
  /\ files_to_process = <<PathJoin(vcf_files_dir, <<"a",".","v","c","f">>)>>
  /\ file_idx = 1
  /\ filename = [bound |-> TRUE, name |-> <<"a",".","v","c","f">>]
  /\ all_contacts = <<>>
  /\ stdout = <<>>
  /\ \E content \in RecordFiles : asm = Frame(content) /\ lines_read = Len(content)
  /\ exc = NoException
  /\ line = <<>>
  /\ result = NoResult
  /\ SmsNotCalled
  /\ CallsNotCalled

NextRecord == BeginLine \/ FieldLine \/ MultimediaLine \/ EndLine \/ EndOfFile

SpecRecord == InitRecord /\ [][NextRecord]_vars

\* in/a.vcf is about to be opened
InitOpenRecord ==
  /\ pc = "loop"
  /\ vcf_files_dir = <<"i","n">>
  /\ input_kind = "dir"
  /\ output_media_dir = <<"o","d">>
  /\ fs = [dirs |-> {output_media_dir}, disk |-> EmptyDict]
  /\ fs0 = fs
  /\ files_to_process = <<PathJoin(vcf_files_dir, <<"a",".","v","c","f">>)>>
  /\ file_idx = 1
  /\ filename = [bound |-> TRUE, name |-> <<"a",".","v","c","f">>]
  /\ all_contacts = <<>>
  /\ stdout = <<>>
  /\ asm = NoFrame
  /\ lines_read = 0
  /\ exc = NoException
  /\ line = <<>>
  /\ result = NoResult
  /\ SmsNotCalled
  /\ CallsNotCalled

\* the file is opened and read: a file of one record
OpenRecordFile ==
  /\ pc = "loop"
  /\ file_idx <= Len(files_to_process)
  /\ \E content \in RecordFiles :
       /\ asm' = Frame(content)
       /\ lines_read' = lines_read + Len(content)
  /\ pc' = "parse"
  /\ UNCHANGED << vcf_files_dir, input_kind, output_media_dir, fs, fs0,
                  files_to_process, file_idx, filename, all_contacts, stdout,
                  exc, line, result, smsOnly, callOnly >>

NextOpenRecord == OpenRecordFile \/ NextRecord

\* _parse_vcf_file has neither returned nor raised
Running == pc \in {"loop", "parse"}

\* _parse_vcf_file is sequential code: while it is running its next step is
\* taken. This is weak fairness of NextOpenRecord, WF_vars(NextOpenRecord),
\* with ENABLED <<NextOpenRecord>>_vars written as Running
FairSpecRecord ==
  /\ InitOpenRecord
  /\ [][NextOpenRecord]_vars
  /\ ([]<>~Running \/ []<><<NextOpenRecord>>_vars)

(***************************************************************************)
(* Properties of the field parsers                                         *)
(***************************************************************************)
\* the mapping {k1: v1, k2: v2}
Pair(k1, v1, k2, v2) == Update(Single(k1, v1), Single(k2, v2))

\* the names of names mapped to the components at their positions, the
\* empty components left out
Positional(names, comps) ==
  LET keep == { i \in 1..Len(comps) : i <= Len(names) /\ comps[i] # <<>> }
  IN  [ k \in { names[i] : i \in keep } |-> comps[CHOOSE i \in keep : names[i] = k] ]

\* parse_vcard_line returned the one field tag with the value v
Gives(tag, v) == result = [exc |-> "none", c |-> Single(tag, v)]

\* C13: every mapping parse_multimedia_tag returns holds exactly one of
\* tag_data and tag_url, at most one of tag_type and tag_mime_type, and no
\* other slot
C13_ExactlyOnePayload ==
  (pc = "line done" /\ result.exc = "none") =>
    \A k \in DOMAIN result.c \cap Range(get_advanced_key_names) :
      LET m == result.c[k].d
      IN  /\ DOMAIN m \subseteq Range(get_multimedia_tag_list)
          /\ (MULTIMEDIA_TAG_TAG_DATA_KEY \in DOMAIN m)
               # (MULTIMEDIA_TAG_TAG_URL_KEY \in DOMAIN m)
          /\ ~ /\ MULTIMEDIA_TAG_TAG_TYPE_KEY \in DOMAIN m
               /\ MULTIMEDIA_TAG_TAG_MIME_TYPE_KEY \in DOMAIN m

\* C14: <TAG>;TYPE=<t>:<url> gives tag_type = <t> and <TAG>;MEDIATYPE=<m>:<url>
\* gives tag_mime_type = <m>, both with tag_url = the whole <url>, colons
\* included
C14_TypedUrlKept ==
  pc = "line done" =>
    \A tag \in Range(get_advanced_key_names), u \in MediaUrls :
      /\ \A t \in MediaTypes :
           line = Form3(tag, t, u) =>
             Gives(tag, DictV(Pair(MULTIMEDIA_TAG_TAG_TYPE_KEY, t,
                                   MULTIMEDIA_TAG_TAG_URL_KEY, u)))
      /\ \A m \in MimeTypes :
           line = Form5(tag, m, u) =>
             Gives(tag, DictV(Pair(MULTIMEDIA_TAG_TAG_MIME_TYPE_KEY, m,
                                   MULTIMEDIA_TAG_TAG_URL_KEY, u)))

\* C16: an N line of exactly 5 components gives the mapping of the five
\* names to the components, the N: prefix stripped from the first and the
\* empty ones left out; any other number of components raises
C16_NameFiveComponents ==
  pc = "line done" =>
    \A comps \in SeqsUpTo(NameComponents, MaxComponents) :
      line = NameLine(comps) =>
        IF Len(comps) = Len(subname_key_types)
        THEN Gives(CONTACT_ID_KEY, DictV(Positional(subname_key_types, comps)))
        ELSE result.exc = "ValueError"

\* C17: an ORG value without a semicolon gives the bare value; a value of 2
\* or 3 components gives the positional mapping onto the three names, the
\* empty components left out
C17_OrganizationComponents ==
  pc = "line done" =>
    \A comps \in SeqsUpTo(OrgComponents, MaxComponents - 2) :
      line = OrgLine(comps) =>
        /\ Len(comps) = 1 => Gives(<<"O","R","G">>, StrV(comps[1]))
        /\ Len(comps) \in {2, 3} =>
             Gives(<<"O","R","G">>, DictV(Positional(sub_org_key_types, comps)))

\* C18: ADR;TYPE=<label>:<components> and ADR;<label>:<components> both give
\* the one entry <label>: the components after the segment that holds the
\* colon, joined by single spaces and trimmed
C18_AddressLabel ==
  pc = "line done" =>
    \A l \in AdrLabels, comps \in SeqsUpTo(AdrComponents, MaxComponents - 2) :
      (line = AdrTyped(l, comps) \/ line = AdrBare(l, comps)) =>
        Gives(<<"A","D","R">>, DictV(Single(l, Strip(Join(Tail(comps), <<" ">>)))))

\* C19: EMAIL, LABEL, RELATED and TEL lines TAG;TYPE=<t>:<data> and
\* TAG;<t>:<data> give {<t>: <data>}, <data> being all the text after the
\* first colon
C19_GenericTypeAndData ==
  pc = "line done" =>
    \A tag \in GenericTags, t \in GenericTypes, d \in GenericData :
      (line = GenericTyped(tag, t, d) \/ line = GenericBare(tag, t, d)) =>
        Gives(tag, DictV(Single(t, d)))

\* a TEL line with the type given bare and colons in its data was parsed
C19_Witness ==
  /\ pc = "line done"
  /\ line = GenericBare(<<"T","E","L">>, <<"w">>, <<":", "a", ":">>)
  /\ result.exc = "none"

(***************************************************************************)
(* Properties of the extraction of one record                              *)
(***************************************************************************)
\* the END:VCARD line about to be read closes a contact with multimedia
ExtractStep ==
  /\ InLoop
  /\ IsEnd(line_content)
  /\ asm.currently_in_contact
  /\ asm.has_multimedia

\* the multimedia tags the current contact holds
MediaTagsOf(contact) == DOMAIN contact \cap Range(get_advanced_key_names)

\* the files the step creates
NewFiles == DOMAIN fs'.disk \ DOMAIN fs.disk

\* the extension the claim gives a multimedia mapping with a type or a MIME
\* type: the type, else the last part of the MIME type split on "/"
ExpectedExtension(m) ==
  IF MULTIMEDIA_TAG_TAG_TYPE_KEY \in DOMAIN m
  THEN m[MULTIMEDIA_TAG_TAG_TYPE_KEY]
  ELSE LET parts == Split(m[MULTIMEDIA_TAG_TAG_MIME_TYPE_KEY], "/")
       IN  parts[Len(parts)]

\* C11: the extension of the file of a tag is its tag_type when present,
\* otherwise the last slash-delimited part of its tag_mime_type; with
\* neither, the extraction raises the extension error and writes nothing
C11_ExtensionSource ==
  [][(ExtractStep /\ Cardinality(MediaTagsOf(asm.curr_contact)) = 1) =>
       \A k \in MediaTagsOf(asm.curr_contact) :
         LET m == asm.curr_contact[k].d
         IN  IF \/ MULTIMEDIA_TAG_TAG_TYPE_KEY \in DOMAIN m
                \/ MULTIMEDIA_TAG_TAG_MIME_TYPE_KEY \in DOMAIN m
             THEN \E f \in NewFiles : EndsWith(f, <<".">> \o ExpectedExtension(m))
             ELSE /\ pc' = "except"
                  /\ exc'.type = "ValueError"
                  /\ fs' = fs]_vars

\* the values of a name mapping put together in the order family, given,
\* additional, prefixes, suffixes
RECURSIVE NameInOrder(_, _)
NameInOrder(d, names) ==
  IF names = <<>> THEN <<>>
  ELSE (IF Head(names) \in DOMAIN d THEN d[Head(names)] ELSE <<>>)
         \o NameInOrder(d, Tail(names))

Letters ==
  { <<"a","b","c","d","e","f","g","h","i","j","k","l","m","n","o","p","q","r","s","t","u","v","w","x","y","z","A","B","C","D","E","F","G","H","I","J","K","L","M","N","O","P","Q","R","S","T","U","V","W","X","Y","Z">>[i] : i \in 1..52 }

\* id is an identifier the claim allows for the contact
IsIdentifierOf(contact, id) ==
  IF CONTACT_ID_KEY \in DOMAIN contact
  THEN id = NameInOrder(contact[CONTACT_ID_KEY].d, subname_key_types)
  ELSE IF CONTACT_SECONDARY_ID_KEY \in DOMAIN contact
  THEN id = contact[CONTACT_SECONDARY_ID_KEY].s
  ELSE Len(id) = RANDOM_FILENAME_LENGTH /\ \A i \in 1..Len(id) : id[i] \in Letters

\* the part of a file name before its first dot
Stem(f) == Split(Basename(f), ".")[1]

\* C12: the files of a contact are named after its N components put together
\* in the fixed order when it has N, else after its FN, else after 10
\* letters; N always holds a mapping and FN a string, so that computing the
\* identifier raises nothing
C12_ContactIdentifier ==
  /\ [](pc = "parse" =>
          /\ CONTACT_ID_KEY \in DOMAIN asm.curr_contact =>
               asm.curr_contact[CONTACT_ID_KEY].kind = "dict"
          /\ CONTACT_SECONDARY_ID_KEY \in DOMAIN asm.curr_contact =>
               asm.curr_contact[CONTACT_SECONDARY_ID_KEY].kind = "str")
  /\ [][ExtractStep =>
          \A f \in NewFiles :
            \E rnd \in RandomNames :
              LET id == get_contact_identifier(asm.curr_contact, rnd)
              IN  /\ IsIdentifierOf(asm.curr_contact, id)
                  /\ Stem(f) = Remove(id, ".")]_vars

\* a file named after N was written for a contact that has FN as well
C12_Witness ==
  /\ pc = "returned"
  /\ \E i \in 1..Len(asm.vcf_file_lines) : asm.vcf_file_lines[i] = <<"F","N",":","J",".","D","\n">>
  /\ \E f \in DOMAIN fs.disk : Stem(f) = <<"K","F">>

\* C15: <TAG>;<TYPE>;ENCODING=BASE64:<data> is stored as tag_type = <TYPE>
\* and tag_data = <data>, and the file written for it has the extension
\* <TYPE> and holds the decoded data
C15_Base64TypeThenEncoding ==
  /\ [][\A tag \in Range(get_advanced_key_names), t \in MediaTypes, d \in MediaData :
          (InLoop /\ asm.currently_in_contact /\ stripped_line = Form2(tag, t, d)
             /\ asm'.line_num > asm.line_num) =>
            /\ tag \in DOMAIN asm'.curr_contact
            /\ asm'.curr_contact[tag] =
                 DictV(Pair(MULTIMEDIA_TAG_TAG_TYPE_KEY, t,
                            MULTIMEDIA_TAG_TAG_DATA_KEY, d))]_vars
  /\ [][\A tag \in Range(get_advanced_key_names), t \in MediaTypes, d \in MediaData :
          (ExtractStep /\ MediaTagsOf(asm.curr_contact) = {tag}
             /\ \E i \in 1..Len(asm.vcf_file_lines) :
                  /\ Strip(asm.vcf_file_lines[i]) = Form2(tag, t, d)
                  /\ \A j \in (i + 1)..Len(asm.vcf_file_lines) :
                       ~StartsMultimedia(asm.vcf_file_lines[j])) =>
            \E f \in NewFiles : /\ EndsWith(f, <<".">> \o t)
                                /\ fs'.disk[f] = b64decode(d).bytes]_vars

(***************************************************************************)
(* When the Multimedia Decoder is invoked.                                 *)
(***************************************************************************)
\* the END:VCARD line about to be read closes a record
EndInRecord == InLoop /\ stripped_line = END_VCARD /\ asm.currently_in_contact

\* the step invokes generate_multimedia_of_contact: on a contact with a
\* multimedia key it writes a file or raises
DecoderInvoked == fs'.disk # fs.disk \/ (pc' = "except" /\ exc'.site = "extraction")

\* C24: at every END:VCARD processed inside a record the Multimedia Decoder
\* is invoked if and only if the contact holds one of KEY, LOGO, PHOTO, SOUND;
\* it is invoked at no other step, and the record is then already appended
C24_DecoderIffMultimediaKey ==
  [][/\ EndInRecord => (DecoderInvoked <=> MediaTagsOf(asm.curr_contact) # {})
     /\ DecoderInvoked =>
          /\ EndInRecord
          /\ asm'.all_contacts = Append(asm.all_contacts, asm.curr_contact)]_vars

(***************************************************************************)
(* The lines a multimedia field takes.                                     *)
(***************************************************************************)
\* the line about to be read starts a multimedia field inside a record
MultimediaStep ==
  /\ InLoop
  /\ stripped_line \notin {BEGIN_VCARD, END_VCARD}
  /\ asm.currently_in_contact
  /\ StartsMultimedia(line_content)

\* line j (counted from 1) ends a field: it is blank, holds a colon, or lies
\* after the last line
EndsField(j) ==
  \/ j > Len(asm.vcf_file_lines)
  \/ Strip(asm.vcf_file_lines[j]) = <<>>
  \/ Contains(asm.vcf_file_lines[j], ":")

\* the first line after the one about to be read that ends its field
FieldEnd ==
  CHOOSE j \in (asm.line_num + 2)..(Len(asm.vcf_file_lines) + 1) :
    EndsField(j) /\ \A k \in (asm.line_num + 2)..(j - 1) : ~EndsField(k)

\* strip(line i) followed by the stripped lines before FieldEnd
FieldText ==
  stripped_line \o
    Cat([k \in 1..(FieldEnd - asm.line_num - 2) |->
           Strip(asm.vcf_file_lines[asm.line_num + 1 + k])])

\* C25: a multimedia field is parsed from strip(line i) and the stripped
\* lines after it up to, excluding, the first blank line, line with a colon,
\* or end of file, and the assembler resumes at that line; any other line
\* moves the assembler on by one line, the line index never goes back, and no
\* BEGIN:VCARD or END:VCARD line is among the lines folded
C25_FoldedLines ==
  [][/\ asm'.line_num >= asm.line_num
     /\ (MultimediaStep /\ pc' = "parse") =>
          /\ asm'.line_num = FieldEnd - 1
          /\ asm'.curr_contact = Update(asm.curr_contact, parse_vcard_line(FieldText).c)
          /\ \A k \in (asm.line_num + 2)..asm'.line_num :
               Strip(asm.vcf_file_lines[k]) \notin {BEGIN_VCARD, END_VCARD}
     /\ (MultimediaStep /\ pc' = "except") =>
          /\ parse_vcard_line(FieldText).exc = exc'.type
          /\ asm'.line_num = asm.line_num
     /\ (InLoop /\ ~MultimediaStep /\ pc' = "parse") =>
          asm'.line_num = asm.line_num + 1]_vars

\* a field of three lines has been folded: the photo data are the three
\* pieces joined, and the assembler stands at the END:VCARD line
C25_Witness ==
  /\ pc = "parse"
  /\ asm.vcf_file_lines =
       << <<"B","E","G","I","N",":","V","C","A","R","D","\n">>, Form2(<<"P","H","O","T","O">>, <<"P">>, <<"Q","Q","=","=">>) \o <<"\n">>,
          <<" ","Q","Q","=","=","\n">>, <<" ","Q","Q","=","=","\n">>, <<"E","N","D",":","V","C","A","R","D","\n">> >>
  /\ asm.line_num = 4
  /\ asm.curr_contact[<<"P","H","O","T","O">>].d[MULTIMEDIA_TAG_TAG_DATA_KEY] = <<"Q","Q","=","=","Q","Q","=","=","Q","Q","=","=">>

(***************************************************************************)
(* The value a tag has in the finalized record.                            *)
(***************************************************************************)
\* the positions (from 1) among i .. e-1 at which the assembler reads a
\* field: a multimedia field takes the lines folded into it with it
RECURSIVE FieldStarts(_, _, _)
FieldStarts(lines, i, e) ==
  IF i >= e THEN {}
  ELSE IF StartsMultimedia(lines[i])
  THEN {i} \cup FieldStarts(lines, parse_multiline_multimedia(lines, i - 1).next + 1, e)
  ELSE {i} \cup FieldStarts(lines, i + 1, e)

\* what the field read at position i produces: the dict of its tag, or {}
Produced(lines, i) ==
  parse_vcard_line(IF StartsMultimedia(lines[i])
                   THEN parse_multiline_multimedia(lines, i - 1).line
                   ELSE Strip(lines[i])).c

\* C26: the finalized record holds exactly the tags the fields of the record
\* produce, each once, with the value parsed from the last field that
\* produces it, whatever fields lie in between
C26_LastWriteWins ==
  pc = "returned" =>
    LET lines == asm.vcf_file_lines
        record == asm.all_contacts[1]
        starts == FieldStarts(lines, 2, Len(lines))
    IN  /\ DOMAIN record = UNION { DOMAIN Produced(lines, i) : i \in starts }
        /\ \A tag \in DOMAIN record :
             LET from == { i \in starts : tag \in DOMAIN Produced(lines, i) }
                 last == CHOOSE i \in from : \A j \in from : j <= i
             IN  record[tag] = Produced(lines, last)[tag]

\* PHOTO is produced twice with another field in between, and the record
\* holds the data of the second
C26_Witness ==
  /\ pc = "returned"
  /\ asm.vcf_file_lines =
       << <<"B","E","G","I","N",":","V","C","A","R","D","\n">>, Form1(<<"P","H","O","T","O">>, <<"P">>, <<"u">>) \o <<"\n">>, <<"F","N",":","J",".","D","\n">>,
          Form2(<<"P","H","O","T","O">>, <<"P">>, <<"Q","Q","=","=">>) \o <<"\n">>, <<"E","N","D",":","V","C","A","R","D","\n">> >>
  /\ DOMAIN asm.all_contacts[1][<<"P","H","O","T","O">>].d =
       {MULTIMEDIA_TAG_TAG_TYPE_KEY, MULTIMEDIA_TAG_TAG_DATA_KEY}

(***************************************************************************)
(* Lines outside a record.                                                 *)
(***************************************************************************)
\* the line about to be read lies outside a record and is no marker
OutsideStep ==
  /\ InLoop
  /\ ~asm.currently_in_contact
  /\ stripped_line \notin {BEGIN_VCARD, END_VCARD}

\* the file without the lines that lie outside a record and are no marker
WithoutOutside(lines) ==
  LET idx == [i \in 1..Len(lines) |-> i]
      keep == SelectSeq(idx, LAMBDA i : \/ IsBegin(lines[i])
                                        \/ IsEnd(lines[i])
                                        \/ Depth(lines, i - 1) >= 1)
  IN  [k \in 1..Len(keep) |-> lines[keep[k]]]

\* the records of a file: the i-th is assembled from the lines between the
\* i-th BEGIN and the i-th END
RecordsOf(lines) ==
  LET begins == PositionsOf(lines, IsBegin)
      ends   == PositionsOf(lines, IsEnd)
  IN  [i \in 1..Len(ends) |-> Assembled(lines, begins[i] + 1, ends[i], EmptyDict)]

\* C27: the records returned are those of the file with its outside lines
\* deleted, so that inserting or deleting such lines changes none; reading
\* such a line moves the assembler to the next line and does nothing else:
\* no record, no file, no message and no exception, even for a line that
\* raises a field error inside a record
C27_OutsideLinesIgnored ==
  /\ [](pc = "returned" =>
          asm.all_contacts = RecordsOf(WithoutOutside(asm.vcf_file_lines)))
  /\ [][OutsideStep =>
          /\ asm' = [asm EXCEPT !.line_num = @ + 1]
          /\ UNCHANGED << pc, exc, fs, all_contacts, stdout >>]_vars

\* the file is returned with its one record, and NAME:x, which raises inside
\* a record, stands before the record and after it
C27_Witness ==
  /\ pc = "returned"
  /\ asm.vcf_file_lines =
       << <<"N","A","M","E",":","x","\n">>, <<"B","E","G","I","N",":","V","C","A","R","D","\n">>, <<"F","N",":","J",".","D","\n">>, <<"E","N","D",":","V","C","A","R","D","\n">>, <<"N","A","M","E",":","x","\n">> >>
  /\ parse_vcard_line(<<"N","A","M","E",":","x">>).exc = "ValueError"
  /\ asm.all_contacts = << Single(<<"F","N">>, StrV(<<"J",".","D">>)) >>

(***************************************************************************)
(* Termination of _parse_vcf_file.                                         *)
(***************************************************************************)
\* the index _parse_multiline_multimedia returns for the field starting at
\* start_line lies after start_line and not beyond the last line
NextIndexInRange(vcf_file_lines, start_line) ==
  LET next_line_num == parse_multiline_multimedia(vcf_file_lines, start_line).next
  IN  start_line < next_line_num /\ next_line_num <= Len(vcf_file_lines)

\* C28: _parse_vcf_file terminates: an iteration of its loop either raises
\* or moves the line index forward, never beyond the number of lines, and
\* leaves the lines as they are; _parse_multiline_multimedia returns an
\* index greater than the start index and at most the number of lines, for
\* every start index in the file and in each of the file's truncations;
\* and the loop is left in the end, by a return or by an exception
C28_Terminates ==
  /\ [][InLoop =>
          /\ asm'.vcf_file_lines = asm.vcf_file_lines
          /\ \/ pc' = "except" /\ asm'.line_num = asm.line_num
             \/ /\ pc' = "parse"
                /\ asm.line_num < asm'.line_num
                /\ asm'.line_num <= Len(asm.vcf_file_lines)]_vars
  /\ [](\A n \in 1..Len(asm.vcf_file_lines) : \A start_line \in 0..(n - 1) :
          NextIndexInRange(SubSeq(asm.vcf_file_lines, 1, n), start_line))
  /\ <>~Running

\* the file has been read to its end and returned; its photo took three
\* lines, and in the file cut after them the field runs to the last line
C28_Witness ==
  /\ pc = "returned"
  /\ asm.line_num = Len(asm.vcf_file_lines)
  /\ asm.vcf_file_lines =
       << <<"B","E","G","I","N",":","V","C","A","R","D","\n">>, Form2(<<"P","H","O","T","O">>, <<"P">>, <<"Q","Q","=","=">>) \o <<"\n">>,
          <<" ","Q","Q","=","=","\n">>, <<" ","Q","Q","=","=","\n">>, <<"E","N","D",":","V","C","A","R","D","\n">> >>
  /\ parse_multiline_multimedia(asm.vcf_file_lines, 1).next = 4
  /\ parse_multiline_multimedia(SubSeq(asm.vcf_file_lines, 1, 4), 1).next = 4

(***************************************************************************)
(* Records do not leak into each other.                                    *)
(***************************************************************************)
\* the position (from 1) of the BEGIN:VCARD line of the record that is open
OwnBegin ==
  CHOOSE p \in 1..asm.line_num :
    /\ IsBegin(asm.vcf_file_lines[p])
    /\ \A q \in (p + 1)..asm.line_num : ~IsBegin(asm.vcf_file_lines[q])

\* record holds nothing but what the fields read at the positions starts
\* produce: each tag with a value one of them gives it
FromOwnLines(record, lines, starts) ==
  \A tag \in DOMAIN record :
    \E p \in starts :
      /\ tag \in DOMAIN Produced(lines, p)
      /\ record[tag] = Produced(lines, p)[tag]

\* the positions of the fields read for the i-th record of the file
RecordStarts(i) ==
  LET lines == asm.vcf_file_lines
  IN  FieldStarts(lines, PositionsOf(lines, IsBegin)[i] + 1, PositionsOf(lines, IsEnd)[i])

\* the positions of the fields read so far for the record that is open
OpenStarts == FieldStarts(asm.vcf_file_lines, OwnBegin + 1, asm.line_num + 1)

\* C29: records do not leak into each other. Every field of the i-th
\* record appended, and of the record under assembly, is produced by a field
\* read between that record's own BEGIN:VCARD and END:VCARD, so that a tag
\* set only in an earlier record is absent from it; outside a record the
\* assembler holds no field and no multimedia flag; and at an END:VCARD the
\* flag is set, and the Multimedia Decoder invoked, only if a multimedia
\* field was read in the record that this END:VCARD closes
C29_NoLeakBetweenRecords ==
  /\ [](\A i \in 1..Len(asm.all_contacts) :
          FromOwnLines(asm.all_contacts[i], asm.vcf_file_lines, RecordStarts(i)))
  /\ []((pc = "parse" /\ asm.currently_in_contact) =>
          FromOwnLines(asm.curr_contact, asm.vcf_file_lines, OpenStarts))
  /\ []((pc = "parse" /\ ~asm.currently_in_contact) =>
          (asm.curr_contact = EmptyDict /\ ~asm.has_multimedia))
  /\ [][(EndInRecord /\ (asm.has_multimedia \/ DecoderInvoked)) =>
          \E p \in OpenStarts : StartsMultimedia(asm.vcf_file_lines[p])]_vars

\* two records are returned: the first holds a logo, which was written to a
\* file, the second holds nothing, and no second file was written
C29_Witness ==
  /\ pc = "returned"
  /\ asm.vcf_file_lines =
       << <<"B","E","G","I","N",":","V","C","A","R","D","\n">>, <<"L","O","G","O",";","T","Y","P","E","=","P",";","E","N","C","O","D","I","N","G","=","b",":","Q","Q","=","=","\n">>, <<"E","N","D",":","V","C","A","R","D","\n">>,
          <<"B","E","G","I","N",":","V","C","A","R","D","\n">>, <<"E","N","D",":","V","C","A","R","D","\n">> >>
  /\ Len(asm.all_contacts) = 2
  /\ <<"L","O","G","O">> \in DOMAIN asm.all_contacts[1]
  /\ asm.all_contacts[2] = EmptyDict
  /\ Cardinality(DOMAIN fs.disk) = 1

(***************************************************************************)
(* A generic tag with no parameter.                                        *)
(***************************************************************************)
\* an EMAIL, LABEL, RELATED or TEL line whose part before the first colon
\* holds neither "=" nor ";"
NoParameter(l) ==
  /\ \E tag \in GenericTags : StartsWith(l, tag)
  /\ LET prefix == Split(l, KEY_VALUE_SEPARATOR)[1]
     IN  /\ ~Contains(prefix, TYPE_ASSIGNMENT_OR_LABEL_SEPARATOR)
         /\ ~Contains(prefix, TAG_FIELD_SEPARATOR)

\* the line about to be read is such a line, inside a record
NoParameterStep ==
  /\ InLoop
  /\ asm.currently_in_contact
  /\ NoParameter(stripped_line)

\* C30: the field parser raises on every EMAIL, LABEL, RELATED or TEL line
\* with no parameter, whatever its data; inside a record the line makes
\* _parse_vcf_file raise, and the handler of the batch then goes on to the
\* next file, or fails itself, with the batch total as it was before the
\* file: none of the records the file had completed is added
C30_NoParameterAbortsFile ==
  /\ \A tag \in GenericTags : \A data \in GenericData :
       /\ NoParameter(tag \o <<":">> \o data)
       /\ parse_vcard_line(tag \o <<":">> \o data).exc = "IndexError"
  /\ [][NoParameterStep =>
          /\ pc' = "except"
          /\ exc' = [type |-> "IndexError", site |-> "field"]
          /\ UNCHANGED << asm, all_contacts, fs >>]_vars
  /\ [][pc = "except" =>
          /\ all_contacts' = all_contacts
          /\ pc' \in {"loop", "raised"}
          /\ asm' = NoFrame]_vars

\* TEL:+123 has raised inside the second record of a file of a directory:
\* the file had completed a record, and the batch holds none
C30_Witness ==
  /\ pc = "except"
  /\ exc = [type |-> "IndexError", site |-> "field"]
  /\ filename.bound
  /\ asm.currently_in_contact
  /\ stripped_line = <<"T","E","L",":","+","1","2","3">>
  /\ asm.all_contacts = << Single(<<"F","N">>, StrV(<<"J",".","D">>)) >>
  /\ all_contacts = <<>>

(***************************************************************************)
(* extract_sms_messages (sms_text_extractor.py)                            *)
(*                                                                         *)
(* An XML element is [tag, attrib, ancestors]: attrib maps attribute names *)
(* to values and ancestors holds the attrib of each enclosing element,     *)
(* nearest first.  iterparse delivers the elements of a document at their  *)
(* end events, in document order.                                          *)
(***************************************************************************)
\* the number of events read over all the files, and of directory entries
MaxEvents == 3
MaxSmsFiles == 2

UpperCase == <<"A","B","C","D","E","F","G","H","I","J","K","L","M","N","O","P","Q","R","S","T","U","V","W","X","Y","Z">>
LowerCase == <<"a","b","c","d","e","f","g","h","i","j","k","l","m","n","o","p","q","r","s","t","u","v","w","x","y","z">>

\* str.lower()
Lower(s) ==
  [ i \in 1..Len(s) |->
      IF Contains(UpperCase, s[i])
      THEN LowerCase[CHOOSE j \in 1..Len(UpperCase) : UpperCase[j] = s[i]]
      ELSE s[i] ]

\* str(n) of an int n >= 0
RECURSIVE Str(_)
Str(n) ==
  LET digit == <<"0","1","2","3","4","5","6","7","8","9">>[(n % 10) + 1]
  IN  IF n < 10 THEN <<digit>> ELSE Str(n \div 10) \o <<digit>>

\* elem.get(name, "")
Get(attrib, name) == IF name \in DOMAIN attrib THEN attrib[name] ELSE <<>>

\* the attributes given as a sequence of <<name, value>>
RECURSIVE Attrib(_)
Attrib(pairs) ==
  IF pairs = <<>> THEN EmptyDict
  ELSE Update(Single(pairs[1][1], pairs[1][2]), Attrib(Tail(pairs)))

Element(tag, attrib, ancestors) ==
  [tag |-> tag, attrib |-> attrib, ancestors |-> ancestors]

\* the keys of a message entry, in the order both branches insert them
MessageKeys ==
  << <<"M","e","s","s","a","g","e"," ","T","y","p","e">>, <<"D","a","t","e"," ","(","t","i","m","e","s","t","a","m","p",")">>, <<"D","a","t","e">>, <<"A","d","d","r","e","s","s">>,
     <<"C","o","n","t","a","c","t"," ","N","a","m","e">>, <<"T","y","p","e">>, <<"B","o","d","y">>, <<"R","e","a","d">>, <<"S","t","a","t","u","s">>, <<"L","o","c","k","e","d">>,
     <<"S","I","M"," ","I","D">>, <<"M","e","s","s","a","g","e"," ","I","D">> >>

\* message.get(key): an entry holds its values in the order of MessageKeys
Value(message, key) ==
  message[CHOOSE i \in 1..Len(MessageKeys) : MessageKeys[i] = key]

\* the entry built for an <sms> element
SmsEntry(a, id) ==
  << <<"S","M","S">>, Get(a, <<"d","a","t","e">>), Get(a, <<"r","e","a","d","a","b","l","e","_","d","a","t","e">>), Get(a, <<"a","d","d","r","e","s","s">>),
     Get(a, <<"c","o","n","t","a","c","t","_","n","a","m","e">>), Get(a, <<"t","y","p","e">>), Get(a, <<"b","o","d","y">>),
     Get(a, <<"r","e","a","d">>), Get(a, <<"s","t","a","t","u","s">>), Get(a, <<"l","o","c","k","e","d">>),
     Get(a, <<"s","u","b","_","i","d">>), id >>

\* the entry built for a text part whose grandparent has the attributes a
MmsEntry(a, text_body, id) ==
  << <<"M","M","S">>, Get(a, <<"d","a","t","e">>), Get(a, <<"r","e","a","d","a","b","l","e","_","d","a","t","e">>), Get(a, <<"a","d","d","r","e","s","s">>),
     Get(a, <<"c","o","n","t","a","c","t","_","n","a","m","e">>), Get(a, <<"m","_","t","y","p","e">>), text_body,
     Get(a, <<"r","e","a","d">>), Get(a, <<"s","t">>), Get(a, <<"l","o","c","k","e","d">>),
     Get(a, <<"s","u","b","_","i","d">>), id >>

\* [str(v) if v is not None else "" for v in message.values()]
Row(message) ==
  [ i \in 1..Len(message) |->
      IF i = Len(MessageKeys) THEN Str(message[i]) ELSE message[i] ]

\* the list with message m put before the first one of a greater timestamp
RECURSIVE InsertByDate(_, _)
InsertByDate(m, l) ==
  IF l = <<>> THEN <<m>>
  ELSE IF StrLess(Value(m, <<"D","a","t","e"," ","(","t","i","m","e","s","t","a","m","p",")">>), Value(Head(l), <<"D","a","t","e"," ","(","t","i","m","e","s","t","a","m","p",")">>))
       THEN <<m>> \o l
       ELSE <<Head(l)>> \o InsertByDate(m, Tail(l))

\* sorted(all_messages, key=lambda k: k.get("Date (timestamp)", "")): stable
RECURSIVE SortedByDate(_)
SortedByDate(l) ==
  IF l = <<>> THEN <<>>
  ELSE InsertByDate(l[Len(l)], SortedByDate(SubSeq(l, 1, Len(l) - 1)))

\* the rows csv_writer writes: the header, then the entries by timestamp
CsvRows(messages) ==
  LET ordered == SortedByDate(messages)
  IN  <<MessageKeys>> \o [i \in 1..Len(ordered) |-> Row(ordered[i])]

\* the path of the CSV file
OutputFile == PathJoin(output_dir, <<"s","m","s","_","m","e","s","s","a","g","e","s",".","c","s","v">>)

(***************************************************************************)
(* The inputs of extract_sms_messages.                                     *)
(***************************************************************************)
\* the timestamps of the backup: "10" < "9" as strings
Dates == { <<"9">>, <<"1","0">> }

\* the date attribute of an element, or no such attribute
DateAttribs == { <<>> } \cup { << <<<<"d","a","t","e">>, d>> >> : d \in Dates }

\* the attributes of the <smses> root
RootAttrib == Attrib(<< <<<<"c","o","u","n","t">>, <<"2">>>> >>)

\* the <sms> elements
SmsElements ==
  { Element(<<"s","m","s">>,
            Attrib(d \o << <<<<"a","d","d","r","e","s","s">>, <<"+","1">>>>, <<<<"b","o","d","y">>, <<"h","i">>>> >>),
            <<RootAttrib>>) : d \in DateAttribs }
  \cup
  { Element(<<"s","m","s">>, Attrib(<< <<<<"d","a","t","e">>, <<"9">>>>, <<<<"a","d","d","r","e","s","s">>, <<"+","1">>>> >>),
            <<RootAttrib>>) }

\* the attributes of an <mms> element
MmsAttribs == { Attrib(d \o << <<<<"a","d","d","r","e","s","s">>, <<"+","2">>>> >>) : d \in DateAttribs }

\* the <part> elements: inside <mms><parts>, or inside a <parts> root
PartElements ==
  { Element(<<"p","a","r","t">>, Attrib(<< <<<<"c","t">>, <<"t","e","x","t","/","p","l","a","i","n">>>>, <<<<"t","e","x","t">>, <<"t">>>> >>),
            <<EmptyDict, m, RootAttrib>>) : m \in MmsAttribs }
  \cup
  { Element(<<"p","a","r","t">>, Attrib(<< <<<<"c","t">>, <<"T","e","x","t","/","P","l","a","i","n">>>>, <<<<"t","e","x","t">>, <<"T">>>> >>),
            <<EmptyDict, Attrib(<< <<<<"d","a","t","e">>, <<"1","0">>>> >>), RootAttrib>>),
    Element(<<"p","a","r","t">>, Attrib(<< <<<<"c","t">>, <<"i","m","a","g","e","/","j","p","e","g">>>>, <<<<"t","e","x","t">>, <<"t">>>> >>),
            <<EmptyDict, Attrib(<< <<<<"d","a","t","e">>, <<"9">>>> >>), RootAttrib>>),
    Element(<<"p","a","r","t">>, Attrib(<< <<<<"c","t">>, <<"t","e","x","t","/","p","l","a","i","n">>>> >>),
            <<EmptyDict, Attrib(<< <<<<"d","a","t","e">>, <<"9">>>> >>), RootAttrib>>),
    Element(<<"p","a","r","t">>, Attrib(<< <<<<"c","t">>, <<"t","e","x","t","/","p","l","a","i","n">>>>, <<<<"t","e","x","t">>, <<"t">>>> >>),
            <<EmptyDict>>) }

\* the elements of any other tag: the loop does nothing with them
OtherElements == { Element(<<"m","m","s">>, Attrib(<< <<<<"d","a","t","e">>, <<"9">>>> >>), <<RootAttrib>>) }

Elements == SmsElements \cup PartElements \cup OtherElements

\* the event streams of at most n elements
Documents(n) == UNION { [1..k -> Elements] : k \in 0..n }

\* the names os.listdir may return
SmsDirEntries == { <<"s","m","s","-","1",".","x","m","l">>, <<"s","m","s","-","2",".","x","m","l">>, <<"c","a","l","l","s",".","x","m","l">>, <<"s","m","s",".","t","x","t">> }

\* the listings of at most MaxSmsFiles distinct entries, in any order
SmsListings ==
  { l \in UNION { [1..k -> SmsDirEntries] : k \in 0..MaxSmsFiles } :
      \A i, j \in 1..Len(l) : i # j => l[i] # l[j] }

\* the state of parse_contacts_from_vcf_files and of parse_vcard_line
contactOnly ==
  << pc, vcf_files_dir, input_kind, output_media_dir, files_to_process, file_idx,
     filename, all_contacts, asm, lines_read, line, result >>

\* extract_sms_messages is called on an input path and an output directory
InitSms ==
  /\ sms_pc = "call"
  /\ sms_input_kind \in {"missing", "file", "dir"}
  /\ output_dir = <<"o","u","t">>
  /\ \E d \in { {}, { <<"o","u","t">> } } : fs = [dirs |-> d, disk |-> EmptyDict]
  /\ fs0 = fs
  /\ stdout = <<>>
  /\ exc = NoException
  /\ sms_files = <<>>
  /\ sms_file_idx = 1
  /\ context = <<>>
  /\ all_messages = <<>>
  /\ num_sms = 0
  /\ num_mms_text = 0
  /\ events_read = 0
  /\ CallsNotCalled
  /\ pc = "not called"
  /\ vcf_files_dir = <<>>
  /\ input_kind = "missing"
  /\ output_media_dir = <<>>
  /\ files_to_process = <<>>
  /\ file_idx = 1
  /\ filename = Unbound
  /\ all_contacts = <<>>
  /\ asm = NoFrame
  /\ lines_read = 0
  /\ line = <<>>
  /\ result = NoResult

(***************************************************************************)
(* The steps of extract_sms_messages.                                      *)
(***************************************************************************)
\* the input path does not exist: a message, and the function returns
SmsInputMissing ==
  /\ sms_pc = "call"
  /\ sms_input_kind = "missing"
  /\ stdout' = Append(stdout, Printed("input directory does not exist", <<>>, 0))
  /\ sms_pc' = "done"
  /\ UNCHANGED << fs, fs0, exc, sms_input_kind, output_dir, sms_files, sms_file_idx,
                  context, all_messages, num_sms, num_mms_text, events_read,
                  contactOnly, callOnly >>

\* the output directory is made before the input path is looked at
SmsInputNotDirAfterMakeDirs ==
  /\ sms_pc = "call"
  /\ sms_input_kind = "file"
  /\ fs' = [fs EXCEPT !.dirs = @ \cup {output_dir}]
  /\ stdout' = Append(stdout, Printed("input path is not a directory", <<>>, 0))
  /\ sms_pc' = "done"
  /\ UNCHANGED << fs0, exc, sms_input_kind, output_dir, sms_files, sms_file_idx,
                  context, all_messages, num_sms, num_mms_text, events_read,
                  contactOnly, callOnly >>

\* the input path is not a directory: a message, and the function returns
SmsInputNotDir ==
  /\ sms_pc = "call"
  /\ sms_input_kind = "file"
  /\ stdout' = Append(stdout, Printed("input path is not a directory", <<>>, 0))
  /\ sms_pc' = "done"
  /\ UNCHANGED << fs, fs0, exc, sms_input_kind, output_dir, sms_files, sms_file_idx,
                  context, all_messages, num_sms, num_mms_text, events_read,
                  contactOnly, callOnly >>

\* os.makedirs(output_dir, exist_ok=True) raises OSError: nothing catches it
SmsMakeDirsFails ==
  /\ sms_pc = "call"
  /\ sms_input_kind = "dir"
  /\ output_dir \notin fs.dirs
  /\ exc' = [type |-> "OSError", site |-> "makedirs"]
  /\ sms_pc' = "raised"
  /\ UNCHANGED << fs, fs0, stdout, sms_input_kind, output_dir, sms_files,
                  sms_file_idx, context, all_messages, num_sms, num_mms_text,
                  events_read, contactOnly, callOnly >>

\* the output directory is made and the input directory is listed
SmsListDir ==
  /\ sms_pc = "call"
  /\ sms_input_kind = "dir"
  /\ fs' = [fs EXCEPT !.dirs = @ \cup {output_dir}]
  /\ sms_files' \in SmsListings
  /\ sms_pc' = "loop"
  /\ UNCHANGED << fs0, stdout, exc, sms_input_kind, output_dir, sms_file_idx,
                  context, all_messages, num_sms, num_mms_text, events_read,
                  contactOnly, callOnly >>

\* filename.endswith(".xml") and filename.startswith("sms")
IsSmsFile(name) == EndsWith(name, <<".","x","m","l">>) /\ StartsWith(name, <<"s","m","s">>)

\* an entry that is not an SMS backup: continue
SmsSkipFile ==
  /\ sms_pc = "loop"
  /\ sms_file_idx <= Len(sms_files)
  /\ ~IsSmsFile(sms_files[sms_file_idx])
  /\ sms_file_idx' = sms_file_idx + 1
  /\ UNCHANGED << fs, fs0, stdout, exc, sms_pc, sms_input_kind, output_dir,
                  sms_files, context, all_messages, num_sms, num_mms_text,
                  events_read, contactOnly, callOnly >>

\* iterparse is set on the next SMS backup
SmsOpenFile ==
  /\ sms_pc = "loop"
  /\ sms_file_idx <= Len(sms_files)
  /\ IsSmsFile(sms_files[sms_file_idx])
  /\ \E document \in Documents(MaxEvents - events_read) :
       /\ context' = document
       /\ events_read' = events_read + Len(document)
  /\ sms_pc' = "events"
  /\ UNCHANGED << fs, fs0, stdout, exc, sms_input_kind, output_dir, sms_files,
                  sms_file_idx, all_messages, num_sms, num_mms_text, contactOnly, callOnly >>

\* the end of an <sms> element: an entry, whatever its body
SmsElementKeepsEmpty ==
  /\ sms_pc = "events"
  /\ context # <<>>
  /\ Head(context).tag = <<"s","m","s">>
  /\ all_messages' = Append(all_messages, SmsEntry(Head(context).attrib, num_sms))
  /\ num_sms' = num_sms + 1
  /\ context' = Tail(context)
  /\ UNCHANGED << fs, fs0, stdout, exc, sms_pc, sms_input_kind, output_dir,
                  sms_files, sms_file_idx, num_mms_text, events_read, contactOnly, callOnly >>

\* the end of an <sms> element: an entry, kept if its body is not empty
SmsElement ==
  /\ sms_pc = "events"
  /\ context # <<>>
  /\ Head(context).tag = <<"s","m","s">>
  /\ LET message_entry == SmsEntry(Head(context).attrib, num_sms)
     IN  IF Value(message_entry, <<"B","o","d","y">>) # <<>>
         THEN /\ all_messages' = Append(all_messages, message_entry)
              /\ num_sms' = num_sms + 1
         ELSE UNCHANGED << all_messages, num_sms >>
  /\ context' = Tail(context)
  /\ UNCHANGED << fs, fs0, stdout, exc, sms_pc, sms_input_kind, output_dir,
                  sms_files, sms_file_idx, num_mms_text, events_read, contactOnly, callOnly >>

\* the end of a <part> element: an entry if it is text/plain, has a
\* grandparent and a text that is not empty
PartElement ==
  /\ sms_pc = "events"
  /\ context # <<>>
  /\ Head(context).tag = <<"p","a","r","t">>
  /\ LET elem == Head(context)
         content_type == Lower(Get(elem.attrib, <<"c","t">>))
         text_body == Get(elem.attrib, <<"t","e","x","t">>)
     IN  IF /\ content_type = <<"t","e","x","t","/","p","l","a","i","n">>
            /\ Len(elem.ancestors) >= 2
            /\ text_body # <<>>
         THEN /\ all_messages' =
                   Append(all_messages, MmsEntry(elem.ancestors[2], text_body, num_mms_text))
              /\ num_mms_text' = num_mms_text + 1
         ELSE UNCHANGED << all_messages, num_mms_text >>
  /\ context' = Tail(context)
  /\ UNCHANGED << fs, fs0, stdout, exc, sms_pc, sms_input_kind, output_dir,
                  sms_files, sms_file_idx, num_sms, events_read, contactOnly, callOnly >>

\* the end of an element of another tag: it is only cleared
OtherElement ==
  /\ sms_pc = "events"
  /\ context # <<>>
  /\ Head(context).tag \notin { <<"s","m","s">>, <<"p","a","r","t">> }
  /\ context' = Tail(context)
  /\ UNCHANGED << fs, fs0, stdout, exc, sms_pc, sms_input_kind, output_dir,
                  sms_files, sms_file_idx, all_messages, num_sms, num_mms_text,
                  events_read, contactOnly, callOnly >>

\* the document is exhausted: the next entry of the listing
SmsFileDone ==
  /\ sms_pc = "events"
  /\ context = <<>>
  /\ sms_file_idx' = sms_file_idx + 1
  /\ sms_pc' = "loop"
  /\ UNCHANGED << fs, fs0, stdout, exc, sms_input_kind, output_dir, sms_files,
                  context, all_messages, num_sms, num_mms_text, events_read,
                  contactOnly, callOnly >>

\* the parser gives up on the rest of the document (one it cannot recover,
\* an empty file): XMLSyntaxError, which nothing catches
SmsDocumentError ==
  /\ sms_pc = "events"
  /\ context = <<>>
  /\ exc' = [type |-> "XMLSyntaxError", site |-> "iterparse"]
  /\ sms_pc' = "raised"
  /\ UNCHANGED << fs, fs0, stdout, sms_input_kind, output_dir, sms_files,
                  sms_file_idx, context, all_messages, num_sms, num_mms_text,
                  events_read, contactOnly, callOnly >>

\* no entry was collected: a message, and no file is written
NothingToExport ==
  /\ sms_pc = "loop"
  /\ sms_file_idx > Len(sms_files)
  /\ all_messages = <<>>
  /\ stdout' = Append(stdout, Printed("no messages found to export", <<>>, 0))
  /\ sms_pc' = "done"
  /\ UNCHANGED << fs, fs0, exc, sms_input_kind, output_dir, sms_files, sms_file_idx,
                  context, all_messages, num_sms, num_mms_text, events_read,
                  contactOnly, callOnly >>

\* what WriteCsv prints
ExportSummary ==
  << Printed("messages exported to", OutputFile, 0),
     Printed("SMS messages", <<>>, num_sms),
     Printed("MMS text bodies", <<>>, num_mms_text) >>

\* the entries are written as they were read
WriteCsvAsRead ==
  /\ sms_pc = "loop"
  /\ sms_file_idx > Len(sms_files)
  /\ all_messages # <<>>
  /\ fs' = [fs EXCEPT !.disk =
              Update(@, Single(OutputFile,
                <<MessageKeys>> \o [i \in 1..Len(all_messages) |-> Row(all_messages[i])]))]
  /\ stdout' = stdout \o ExportSummary
  /\ sms_pc' = "done"
  /\ UNCHANGED << fs0, exc, sms_input_kind, output_dir, sms_files, sms_file_idx,
                  context, all_messages, num_sms, num_mms_text, events_read,
                  contactOnly, callOnly >>

\* the CSV file is written: the header, then the entries by timestamp
WriteCsv ==
  /\ sms_pc = "loop"
  /\ sms_file_idx > Len(sms_files)
  /\ all_messages # <<>>
  /\ fs' = [fs EXCEPT !.disk = Update(@, Single(OutputFile, CsvRows(all_messages)))]
  /\ stdout' = stdout \o ExportSummary
  /\ sms_pc' = "done"
  /\ UNCHANGED << fs0, exc, sms_input_kind, output_dir, sms_files, sms_file_idx,
                  context, all_messages, num_sms, num_mms_text, events_read,
                  contactOnly, callOnly >>

NextSms ==
  \/ SmsInputMissing
  \/ SmsInputNotDir
  \/ SmsMakeDirsFails
  \/ SmsListDir
  \/ SmsSkipFile
  \/ SmsOpenFile
  \/ SmsElement
  \/ PartElement
  \/ OtherElement
  \/ SmsFileDone
  \/ SmsDocumentError
  \/ NothingToExport
  \/ WriteCsv

SpecSms == InitSms /\ [][NextSms]_vars

(***************************************************************************)
(* The order of the rows of sms_messages.csv.                              *)
(***************************************************************************)
\* the data rows of the CSV file
DataRows == Tail(fs.disk[OutputFile])

\* the 'Date (timestamp)' column of the data rows
Timestamps == [i \in 1..Len(DataRows) |-> Value(DataRows[i], <<"D","a","t","e"," ","(","t","i","m","e","s","t","a","m","p",")">>)]

\* C20: once sms_messages.csv is written, the 'Date (timestamp)' values of its
\* data rows are in non-decreasing string order, SMS and MMS rows of all the
\* input files together, whatever the order in which they were read
C20_RowsByTimestamp ==
  OutputFile \in DOMAIN fs.disk =>
    \A i, j \in 1..Len(DataRows) : i < j => ~StrLess(Timestamps[j], Timestamps[i])

\* the file holds an MMS row before an SMS row, read the other way round
\* from two files, and three distinct timestamps
C20_Witness ==
  /\ sms_pc = "done"
  /\ OutputFile \in DOMAIN fs.disk
  /\ Len(sms_files) = 2
  /\ Len(all_messages) = 3
  /\ Value(all_messages[1], <<"M","e","s","s","a","g","e"," ","T","y","p","e">>) = <<"S","M","S">>
  /\ Value(all_messages[1], <<"D","a","t","e"," ","(","t","i","m","e","s","t","a","m","p",")">>) = <<"9">>
  /\ Value(all_messages[3], <<"M","e","s","s","a","g","e"," ","T","y","p","e">>) = <<"M","M","S">>
  /\ Value(all_messages[3], <<"D","a","t","e"," ","(","t","i","m","e","s","t","a","m","p",")">>) = <<"1","0">>
  /\ Timestamps = << <<>>, <<"1","0">>, <<"9">> >>
  /\ Value(DataRows[3], <<"M","e","s","s","a","g","e"," ","T","y","p","e">>) = <<"S","M","S">>

(***************************************************************************)
(* The rows of sms_messages.csv and the elements they come from.           *)
(***************************************************************************)
\* a step that takes the next element of the running document
ElementStep == sms_pc = "events" /\ context # <<>> /\ context' = Tail(context)

\* an <sms> element with a body
IsSmsWithBody(elem) == elem.tag = <<"s","m","s">> /\ Get(elem.attrib, <<"b","o","d","y">>) # <<>>

\* a <part> element of type text/plain with a text
IsTextPart(elem) ==
  /\ elem.tag = <<"p","a","r","t">>
  /\ Lower(Get(elem.attrib, <<"c","t">>)) = <<"t","e","x","t","/","p","l","a","i","n">>
  /\ Get(elem.attrib, <<"t","e","x","t">>) # <<>>

\* the element lies inside <mms><parts>: it has a grandparent
HasGrandparent(elem) == Len(elem.ancestors) >= 2

\* the entry m carries the body and the metadata of the <sms> element
IsRowOfSms(m, elem) ==
  /\ Value(m, <<"M","e","s","s","a","g","e"," ","T","y","p","e">>) = <<"S","M","S">>
  /\ Value(m, <<"B","o","d","y">>) = Get(elem.attrib, <<"b","o","d","y">>)
  /\ Value(m, <<"D","a","t","e"," ","(","t","i","m","e","s","t","a","m","p",")">>) = Get(elem.attrib, <<"d","a","t","e">>)
  /\ Value(m, <<"A","d","d","r","e","s","s">>) = Get(elem.attrib, <<"a","d","d","r","e","s","s">>)

\* the entry m carries the text of the part and the metadata of its <mms>
IsRowOfPart(m, elem) ==
  /\ Value(m, <<"M","e","s","s","a","g","e"," ","T","y","p","e">>) = <<"M","M","S">>
  /\ Value(m, <<"B","o","d","y">>) = Get(elem.attrib, <<"t","e","x","t">>)
  /\ Value(m, <<"D","a","t","e"," ","(","t","i","m","e","s","t","a","m","p",")">>) = Get(elem.ancestors[2], <<"d","a","t","e">>)
  /\ Value(m, <<"A","d","d","r","e","s","s">>) = Get(elem.ancestors[2], <<"a","d","d","r","e","s","s">>)

\* the step appends exactly one entry, and it is the row of elem
AppendsRowOf(elem) ==
  /\ Len(all_messages') = Len(all_messages) + 1
  /\ SubSeq(all_messages', 1, Len(all_messages)) = all_messages
  /\ LET m == all_messages'[Len(all_messages')]
     IN  IF elem.tag = <<"s","m","s">> THEN IsRowOfSms(m, elem) ELSE IsRowOfPart(m, elem)

\* the number of times x occurs in the sequence s
Occurrences(s, x) == Cardinality({ i \in 1..Len(s) : s[i] = x })

\* the data rows of the CSV file are the rows of the entries collected
RowsAreEntries ==
  OutputFile \in DOMAIN fs.disk =>
    LET rows == Tail(fs.disk[OutputFile])
    IN  /\ Len(rows) = Len(all_messages)
        /\ \A i \in 1..Len(all_messages) :
             Occurrences(rows, Row(all_messages[i])) =
               Occurrences([j \in 1..Len(all_messages) |-> Row(all_messages[j])],
                           Row(all_messages[i]))

C22_BadInputLeavesNoTrace ==
  sms_input_kind \in {"missing", "file"} /\ sms_pc # "call" =>
    /\ sms_pc = "done"
    /\ exc = NoException
    /\ fs = fs0
    /\ OutputFile \notin DOMAIN fs.disk

\* the call returned on a path that is not a directory, and the output
\* directory, which did not exist, still does not
C22_Witness ==
  /\ sms_pc = "done"
  /\ sms_input_kind = "file"
  /\ output_dir \notin fs.dirs
  /\ Len(stdout) = 1

(***************************************************************************)
(* create_call_log (call_log_generator.py)                                 *)
(***************************************************************************)
\* the number of events read over all the files, and of directory entries
MaxCallEvents == 3
MaxCallFiles == 2

Digits == <<"0","1","2","3","4","5","6","7","8","9">>

\* int(s) of a string of decimal digits
RECURSIVE DigitsValue(_)
DigitsValue(s) ==
  IF s = <<>> THEN 0
  ELSE 10 * DigitsValue(SubSeq(s, 1, Len(s) - 1))
       + (CHOOSE d \in 0..9 : Digits[d + 1] = s[Len(s)])

\* int(s) raises ValueError unless s is a number; of the strings drawn the
\* numbers are those made of decimal digits
IsNumber(s) == s # <<>> /\ \A i \in 1..Len(s) : Contains(Digits, s[i])

\* f"{n} {unit}{"s" if n != 1 else ""}"
Counted(n, unit) == Str(n) \o <<" ">> \o unit \o (IF n # 1 THEN <<"s">> ELSE <<>>)

\* get_human_readable_duration(duration_raw_s), for a number
get_human_readable_duration(duration_raw_s) ==
  LET duration_s == DigitsValue(duration_raw_s)
      seconds == duration_s % 60
      minutes == (duration_s \div 60) % 60
      hours == (duration_s \div 60) \div 60
      h == IF hours > 0 THEN Counted(hours, <<"h","o","u","r">>) ELSE <<>>
      m == IF minutes > 0
           THEN h \o (IF h # <<>> THEN <<","," ">> ELSE <<>>) \o Counted(minutes, <<"m","i","n","u","t","e">>)
           ELSE h
  IN  IF seconds > 0 \/ (seconds = 0 /\ m = <<>>)
      THEN m \o (IF m # <<>> THEN <<","," ">> ELSE <<>>) \o Counted(seconds, <<"s","e","c","o","n","d">>)
      ELSE m

\* call_type_map.get(call_type_code, "Unknown")
call_type_map(call_type_code) ==
  CASE call_type_code = <<"1">> -> <<"I","n","c","o","m","i","n","g">>
    [] call_type_code = <<"2">> -> <<"O","u","t","g","o","i","n","g">>
    [] call_type_code = <<"3">> -> <<"M","i","s","s","e","d">>
    [] call_type_code = <<"4">> -> <<"V","o","i","c","e","m","a","i","l">>
    [] call_type_code = <<"5">> -> <<"R","e","j","e","c","t","e","d">>
    [] call_type_code = <<"6">> -> <<"B","l","o","c","k","e","d">>
    [] call_type_code = <<"7">> -> <<"A","n","s","w","e","r","e","d","E","x","t","e","r","n","a","l","l","y">>
    [] OTHER -> <<"U","n","k","n","o","w","n">>

\* the keys of a call entry, in the order they are inserted
CallKeys ==
  << <<"C","a","l","l"," ","D","a","t","e"," ","(","t","i","m","e","s","t","a","m","p",")">>, <<"C","a","l","l"," ","d","a","t","e">>, <<"C","a","l","l"," ","t","y","p","e">>, <<"C","a","l","l","e","r"," ","n","a","m","e">>,
     <<"C","a","l","l","e","r"," ","#">>, <<"C","a","l","l"," ","d","u","r","a","t","i","o","n"," ","(","s",")">>, <<"C","a","l","l"," ","d","u","r","a","t","i","o","n">>, <<"R","e","a","d"," ","s","t","a","t","u","s">>,
     <<"S","I","M"," ","s","l","o","t">>, <<"F","e","a","t","u","r","e","s">>, <<"C","a","l","l"," ","I","d"," ","#">> >>

\* call_entry[key]: an entry holds its values in the order of CallKeys
CallValue(call_entry, key) ==
  call_entry[CHOOSE i \in 1..Len(CallKeys) : CallKeys[i] = key]

\* value if value else "N/A"
OrNA(value) == IF value # <<>> THEN value ELSE <<"N","/","A">>

\* ", ".join(features) if features else "N/A"
Features(a) ==
  LET presentation == Get(a, <<"p","r","e","s","e","n","t","a","t","i","o","n">>)
      post_dial == Get(a, <<"p","o","s","t","_","d","i","a","l","_","d","i","g","i","t","s">>)
      f1 == IF presentation # <<>> /\ presentation # <<"1">>
            THEN << <<"p","r","e","s","e","n","t","a","t","i","o","n",":">> \o presentation >> ELSE <<>>
      f2 == IF post_dial # <<>> THEN << <<"p","o","s","t","_","d","i","a","l",":">> \o post_dial >> ELSE <<>>
  IN  IF f1 \o f2 = <<>> THEN <<"N","/","A">> ELSE Join(f1 \o f2, <<","," ">>)

\* elem.get("duration", "0")
DurationOf(a) == IF <<"d","u","r","a","t","i","o","n">> \in DOMAIN a THEN a[<<"d","u","r","a","t","i","o","n">>] ELSE <<"0">>

\* the call is not a missed one, so that its duration is converted
DurationConverted(a) == call_type_map(Get(a, <<"t","y","p","e">>)) # <<"M","i","s","s","e","d">>

\* call_entry_obj for a <call> element of attributes a
CallEntry(a, id) ==
  LET call_type == call_type_map(Get(a, <<"t","y","p","e">>))
  IN  << Get(a, <<"d","a","t","e">>), Get(a, <<"r","e","a","d","a","b","l","e","_","d","a","t","e">>), call_type,
         IF <<"c","o","n","t","a","c","t","_","n","a","m","e">> \in DOMAIN a THEN a[<<"c","o","n","t","a","c","t","_","n","a","m","e">>] ELSE <<"(","U","n","k","n","o","w","n",")">>,
         Get(a, <<"n","u","m","b","e","r">>),
         IF call_type # <<"M","i","s","s","e","d">> THEN DurationOf(a) ELSE <<"N","/","A">>,
         IF call_type # <<"M","i","s","s","e","d">> THEN get_human_readable_duration(DurationOf(a))
         ELSE <<"N","/","A">>,
         OrNA(Get(a, <<"r","e","a","d">>)), OrNA(Get(a, <<"s","u","b","s","c","r","i","p","t","i","o","n","_","i","d">>)), Features(a), id >>

\* the list with the call entry c put before the first of a greater timestamp
RECURSIVE InsertCall(_, _)
InsertCall(c, l) ==
  IF l = <<>> THEN <<c>>
  ELSE IF StrLess(c[1], Head(l)[1]) THEN <<c>> \o l
  ELSE <<Head(l)>> \o InsertCall(c, Tail(l))

\* sorted(all_calls_list, key=lambda k: k[call_timestamp_key_name])
RECURSIVE SortedCalls(_)
SortedCalls(l) ==
  IF l = <<>> THEN <<>> ELSE InsertCall(l[Len(l)], SortedCalls(SubSeq(l, 1, Len(l) - 1)))

\* list(call_entry.values()) as csv_writer writes it: the id as str(id)
CallRow(call_entry) ==
  [ i \in 1..Len(call_entry) |->
      IF i = Len(CallKeys) THEN Str(call_entry[i]) ELSE call_entry[i] ]

\* the path of the call log: output_dir, or os.getcwd() when it is None
CallLogFile ==
  PathJoin(IF call_output_dir.none THEN <<"/","c","w","d">> ELSE call_output_dir.path,
           <<"c","a","l","l","_","l","o","g",".","c","s","v">>)

(***************************************************************************)
(* The inputs of create_call_log.                                          *)
(***************************************************************************)
\* the <call> elements: two timestamps, each with two callers; a call with
\* no date and one with an empty date; a missed call; a call whose duration
\* is no number; a call with features and neither type nor duration
CallElements ==
  { Element(<<"c","a","l","l">>,
            Attrib(<< <<<<"d","a","t","e">>, d>>, <<<<"n","u","m","b","e","r">>, n>>, <<<<"t","y","p","e">>, <<"1">>>>,
                      <<<<"d","u","r","a","t","i","o","n">>, <<"6","5">>>> >>), <<EmptyDict>>) :
      d \in Dates, n \in { <<"1">>, <<"2">> } }
  \cup
  { Element(<<"c","a","l","l">>, Attrib(<< <<<<"n","u","m","b","e","r">>, <<"1">>>> >>), <<EmptyDict>>),
    Element(<<"c","a","l","l">>, Attrib(<< <<<<"d","a","t","e">>, <<>> >>, <<<<"n","u","m","b","e","r">>, <<"1">>>> >>),
            <<EmptyDict>>),
    Element(<<"c","a","l","l">>,
            Attrib(<< <<<<"d","a","t","e">>, <<"9">>>>, <<<<"n","u","m","b","e","r">>, <<"3">>>>, <<<<"t","y","p","e">>, <<"3">>>>,
                      <<<<"d","u","r","a","t","i","o","n">>, <<"x">>>> >>), <<EmptyDict>>),
    Element(<<"c","a","l","l">>,
            Attrib(<< <<<<"d","a","t","e">>, <<"1","0">>>>, <<<<"n","u","m","b","e","r">>, <<"4">>>>, <<<<"t","y","p","e">>, <<"2">>>>,
                      <<<<"d","u","r","a","t","i","o","n">>, <<"x">>>> >>), <<EmptyDict>>),
    Element(<<"c","a","l","l">>,
            Attrib(<< <<<<"d","a","t","e">>, <<"9">>>>, <<<<"n","u","m","b","e","r">>, <<"5">>>>,
                      <<<<"p","r","e","s","e","n","t","a","t","i","o","n">>, <<"2">>>>, <<<<"p","o","s","t","_","d","i","a","l","_","d","i","g","i","t","s">>, <<"7">>>>,
                      <<<<"r","e","a","d">>, <<"1">>>> >>), <<EmptyDict>>) }

\* the elements of the documents: <call> elements and the <calls> root
CallLogElements == CallElements \cup { Element(<<"c","a","l","l","s">>, EmptyDict, <<>>) }

\* the names os.listdir may return
CallDirEntries == { <<"c","a","l","l","s","-","1",".","x","m","l">>, <<"c","a","l","l","s","-","2",".","x","m","l">>, <<"s","m","s","-","1",".","x","m","l">> }

\* the listings of at most MaxCallFiles distinct entries, in any order
CallListings ==
  { l \in UNION { [1..k -> CallDirEntries] : k \in 0..MaxCallFiles } :
      \A i, j \in 1..Len(l) : i # j => l[i] # l[j] }

\* create_call_log is called on an input path and an output directory
InitCalls ==
  /\ call_pc = "call"
  /\ calls_input_kind \in {"missing", "dir"}
  /\ call_output_dir \in { [none |-> TRUE, path |-> <<>>], [none |-> FALSE, path |-> <<"o","u","t">>] }
  /\ \E d \in { { <<"/","c","w","d">> }, { <<"/","c","w","d">>, <<"o","u","t">> } } : fs = [dirs |-> d, disk |-> EmptyDict]
  /\ fs0 = fs
  /\ stdout = <<>>
  /\ exc = NoException
  /\ calls_files = <<>>
  /\ calls_file_idx = 1
  /\ calls_context = <<>>
  /\ all_calls_list = <<>>
  /\ call_timestamps = {}
  /\ num_calls = 0
  /\ calls_read = 0
  /\ SmsNotCalled
  /\ pc = "not called"
  /\ vcf_files_dir = <<>>
  /\ input_kind = "missing"
  /\ output_media_dir = <<>>
  /\ files_to_process = <<>>
  /\ file_idx = 1
  /\ filename = Unbound
  /\ all_contacts = <<>>
  /\ asm = NoFrame
  /\ lines_read = 0
  /\ line = <<>>
  /\ result = NoResult

\* what no step of create_call_log changes
callFrame == << fs0, calls_input_kind, call_output_dir, smsOnly, contactOnly >>

(***************************************************************************)
(* The steps of create_call_log.                                           *)
(***************************************************************************)
\* os.listdir(calls_xml_dir) raises: nothing catches it
CallsListDirFails ==
  /\ call_pc = "call"
  /\ calls_input_kind = "missing"
  /\ exc' = [type |-> "FileNotFoundError", site |-> "listdir"]
  /\ call_pc' = "raised"
  /\ UNCHANGED << fs, stdout, calls_files, calls_file_idx, calls_context,
                  all_calls_list, call_timestamps, num_calls, calls_read, callFrame >>

\* the input directory is listed
CallsListDir ==
  /\ call_pc = "call"
  /\ calls_input_kind = "dir"
  /\ calls_files' \in CallListings
  /\ call_pc' = "loop"
  /\ UNCHANGED << fs, stdout, exc, calls_file_idx, calls_context, all_calls_list,
                  call_timestamps, num_calls, calls_read, callFrame >>

\* filename.endswith(".xml") and filename.startswith("calls")
IsCallsFile(name) == EndsWith(name, <<".","x","m","l">>) /\ StartsWith(name, <<"c","a","l","l","s">>)

\* an entry that is not a call backup: continue
CallsSkipFile ==
  /\ call_pc = "loop"
  /\ calls_file_idx <= Len(calls_files)
  /\ ~IsCallsFile(calls_files[calls_file_idx])
  /\ calls_file_idx' = calls_file_idx + 1
  /\ UNCHANGED << fs, stdout, exc, call_pc, calls_files, calls_context,
                  all_calls_list, call_timestamps, num_calls, calls_read, callFrame >>

\* iterparse is set on the next call backup
CallsOpenFile ==
  /\ call_pc = "loop"
  /\ calls_file_idx <= Len(calls_files)
  /\ IsCallsFile(calls_files[calls_file_idx])
  /\ \E k \in 0..(MaxCallEvents - calls_read) :
       /\ calls_context' \in [1..k -> CallLogElements]
       /\ calls_read' = calls_read + k
  /\ call_pc' = "events"
  /\ UNCHANGED << fs, stdout, exc, calls_files, calls_file_idx, all_calls_list,
                  call_timestamps, num_calls, callFrame >>

\* the end of an element that is no <call>: it is cleared
NotACall ==
  /\ call_pc = "events"
  /\ calls_context # <<>>
  /\ Head(calls_context).tag # <<"c","a","l","l">>
  /\ calls_context' = Tail(calls_context)
  /\ UNCHANGED << fs, stdout, exc, call_pc, calls_files, calls_file_idx,
                  all_calls_list, call_timestamps, num_calls, calls_read, callFrame >>

\* a <call> with no timestamp, or with one already processed: skipped
CallSkipped ==
  /\ call_pc = "events"
  /\ calls_context # <<>>
  /\ Head(calls_context).tag = <<"c","a","l","l">>
  /\ LET call_timestamp == Get(Head(calls_context).attrib, <<"d","a","t","e">>)
     IN  call_timestamp = <<>> \/ call_timestamp \in call_timestamps
  /\ calls_context' = Tail(calls_context)
  /\ UNCHANGED << fs, stdout, exc, call_pc, calls_files, calls_file_idx,
                  all_calls_list, call_timestamps, num_calls, calls_read, callFrame >>

\* a <call> with a new timestamp whose duration is no number: int() raises
\* ValueError, which nothing catches
CallDurationRaises ==
  /\ call_pc = "events"
  /\ calls_context # <<>>
  /\ Head(calls_context).tag = <<"c","a","l","l">>
  /\ LET a == Head(calls_context).attrib
     IN  /\ Get(a, <<"d","a","t","e">>) # <<>>
         /\ Get(a, <<"d","a","t","e">>) \notin call_timestamps
         /\ DurationConverted(a)
         /\ ~IsNumber(DurationOf(a))
  /\ exc' = [type |-> "ValueError", site |-> "get_human_readable_duration"]
  /\ call_pc' = "raised"
  /\ UNCHANGED << fs, stdout, calls_files, calls_file_idx, calls_context,
                  all_calls_list, call_timestamps, num_calls, calls_read, callFrame >>

\* a <call> with a new timestamp: its entry is kept, every time
CallKeptAgain ==
  /\ call_pc = "events"
  /\ calls_context # <<>>
  /\ Head(calls_context).tag = <<"c","a","l","l">>
  /\ LET a == Head(calls_context).attrib
     IN  /\ Get(a, <<"d","a","t","e">>) # <<>>
         /\ DurationConverted(a) => IsNumber(DurationOf(a))
         /\ all_calls_list' = Append(all_calls_list, CallEntry(a, num_calls))
         /\ call_timestamps' = call_timestamps
  /\ num_calls' = num_calls + 1
  /\ calls_context' = Tail(calls_context)
  /\ UNCHANGED << fs, stdout, exc, call_pc, calls_files, calls_file_idx,
                  calls_read, callFrame >>

\* a <call> with a new timestamp: its entry is kept
CallKept ==
  /\ call_pc = "events"
  /\ calls_context # <<>>
  /\ Head(calls_context).tag = <<"c","a","l","l">>
  /\ LET a == Head(calls_context).attrib
     IN  /\ Get(a, <<"d","a","t","e">>) # <<>>
         /\ Get(a, <<"d","a","t","e">>) \notin call_timestamps
         /\ DurationConverted(a) => IsNumber(DurationOf(a))
         /\ all_calls_list' = Append(all_calls_list, CallEntry(a, num_calls))
         /\ call_timestamps' = call_timestamps \cup {Get(a, <<"d","a","t","e">>)}
  /\ num_calls' = num_calls + 1
  /\ calls_context' = Tail(calls_context)
  /\ UNCHANGED << fs, stdout, exc, call_pc, calls_files, calls_file_idx,
                  calls_read, callFrame >>

\* the document is exhausted: a message, and the next entry of the listing
CallsFileDone ==
  /\ call_pc = "events"
  /\ calls_context = <<>>
  /\ stdout' = Append(stdout, Printed("finished processing file",
                                      calls_files[calls_file_idx], num_calls))
  /\ calls_file_idx' = calls_file_idx + 1
  /\ call_pc' = "loop"
  /\ UNCHANGED << fs, exc, calls_files, calls_context, all_calls_list,
                  call_timestamps, num_calls, calls_read, callFrame >>

\* the parser gives up on the rest of the document: XMLSyntaxError, which
\* nothing catches
CallsDocumentError ==
  /\ call_pc = "events"
  /\ calls_context = <<>>
  /\ exc' = [type |-> "XMLSyntaxError", site |-> "iterparse"]
  /\ call_pc' = "raised"
  /\ UNCHANGED << fs, stdout, calls_files, calls_file_idx, calls_context,
                  all_calls_list, call_timestamps, num_calls, calls_read, callFrame >>

\* os.makedirs(output_dir, exist_ok=True), when output_dir is given
CallsMakeDirs(f) ==
  IF call_output_dir.none THEN f ELSE [f EXCEPT !.dirs = @ \cup {call_output_dir.path}]

\* os.makedirs raises OSError: nothing catches it
CallsMakeDirsFails ==
  /\ call_pc = "loop"
  /\ calls_file_idx > Len(calls_files)
  /\ ~call_output_dir.none
  /\ call_output_dir.path \notin fs.dirs
  /\ exc' = [type |-> "OSError", site |-> "makedirs"]
  /\ call_pc' = "raised"
  /\ UNCHANGED << fs, stdout, calls_files, calls_file_idx, calls_context,
                  all_calls_list, call_timestamps, num_calls, calls_read, callFrame >>

\* no entry was kept: a message, and no file is written
NoCallsFound ==
  /\ call_pc = "loop"
  /\ calls_file_idx > Len(calls_files)
  /\ all_calls_list = <<>>
  /\ fs' = CallsMakeDirs(fs)
  /\ stdout' = Append(stdout, Printed("no calls found", <<>>, 0))
  /\ call_pc' = "done"
  /\ UNCHANGED << exc, calls_files, calls_file_idx, calls_context, all_calls_list,
                  call_timestamps, num_calls, calls_read, callFrame >>

\* the call log is written: the header, then the entries by timestamp
WriteCallLog ==
  /\ call_pc = "loop"
  /\ calls_file_idx > Len(calls_files)
  /\ all_calls_list # <<>>
  /\ fs' = [CallsMakeDirs(fs) EXCEPT !.disk =
              Update(@, Single(CallLogFile,
                <<CallKeys>> \o [i \in 1..Len(all_calls_list) |->
                                   CallRow(SortedCalls(all_calls_list)[i])]))]
  /\ stdout' = Append(stdout, Printed("call log written to", CallLogFile, 0))
  /\ call_pc' = "done"
  /\ UNCHANGED << exc, calls_files, calls_file_idx, calls_context, all_calls_list,
                  call_timestamps, num_calls, calls_read, callFrame >>

NextCalls ==
  \/ CallsListDirFails
  \/ CallsListDir
  \/ CallsSkipFile
  \/ CallsOpenFile
  \/ NotACall
  \/ CallSkipped
  \/ CallDurationRaises
  \/ CallKept
  \/ CallsFileDone
  \/ CallsDocumentError
  \/ CallsMakeDirsFails
  \/ NoCallsFound
  \/ WriteCallLog

SpecCalls == InitCalls /\ [][NextCalls]_vars

(***************************************************************************)
(* The call log holds one entry per timestamp.                             *)
(***************************************************************************)
\* a step that takes a <call> element off the running document
CallStep ==
  /\ call_pc = "events"
  /\ calls_context # <<>>
  /\ Head(calls_context).tag = <<"c","a","l","l">>
  /\ calls_context' = Tail(calls_context)

\* an entry of the list has the timestamp t
HasEntryFor(t) ==
  \E i \in 1..Len(all_calls_list) : CallValue(all_calls_list[i], <<"C","a","l","l"," ","D","a","t","e"," ","(","t","i","m","e","s","t","a","m","p",")">>) = t

\* the data rows of the call log
CallLogRows == Tail(fs.disk[CallLogFile])

\* C23: no two entries of the call log share a 'Call Date (timestamp)', in
\* the list and in the file written; the 'Call Id #' of the kept entries are
\* 0..n-1 in the order read; an entry once kept stays as it is, a <call> whose
\* timestamp has an entry adds none, and a <call> with a timestamp that has
\* none adds its own entry: the entry of a timestamp is the first one read
C23_DeduplicatedByTimestamp ==
  /\ [](\A i, j \in 1..Len(all_calls_list) :
          i # j => CallValue(all_calls_list[i], <<"C","a","l","l"," ","D","a","t","e"," ","(","t","i","m","e","s","t","a","m","p",")">>)
                     # CallValue(all_calls_list[j], <<"C","a","l","l"," ","D","a","t","e"," ","(","t","i","m","e","s","t","a","m","p",")">>))
  /\ [](\A i \in 1..Len(all_calls_list) :
          CallValue(all_calls_list[i], <<"C","a","l","l"," ","I","d"," ","#">>) = i - 1)
  /\ [](CallLogFile \in DOMAIN fs.disk =>
          /\ Len(CallLogRows) = Len(all_calls_list)
          /\ \A i \in 1..Len(all_calls_list) :
               \E j \in 1..Len(CallLogRows) : CallLogRows[j] = CallRow(all_calls_list[i])
          /\ \A i, j \in 1..Len(CallLogRows) :
               i # j => CallValue(CallLogRows[i], <<"C","a","l","l"," ","D","a","t","e"," ","(","t","i","m","e","s","t","a","m","p",")">>)
                          # CallValue(CallLogRows[j], <<"C","a","l","l"," ","D","a","t","e"," ","(","t","i","m","e","s","t","a","m","p",")">>))
  /\ [][SubSeq(all_calls_list', 1, Len(all_calls_list)) = all_calls_list]_vars
  /\ [][CallStep =>
          LET a == Head(calls_context).attrib
              t == Get(a, <<"d","a","t","e">>)
          IN  IF t # <<>> /\ ~HasEntryFor(t)
              THEN /\ Len(all_calls_list') = Len(all_calls_list) + 1
                   /\ LET kept == all_calls_list'[Len(all_calls_list')]
                      IN  /\ CallValue(kept, <<"C","a","l","l"," ","D","a","t","e"," ","(","t","i","m","e","s","t","a","m","p",")">>) = t
                          /\ CallValue(kept, <<"C","a","l","l","e","r"," ","#">>) = Get(a, <<"n","u","m","b","e","r">>)
              ELSE all_calls_list' = all_calls_list]_vars
  /\ [][~CallStep => all_calls_list' = all_calls_list]_vars

\* two files, three elements read, two entries kept: the call of caller 2 at
\* timestamp 9 and a call at timestamp 10, written in the order 10, 9
C23_Witness ==
  /\ call_pc = "done"
  /\ CallLogFile \in DOMAIN fs.disk
  /\ Len(calls_files) = 2
  /\ calls_read = 3
  /\ call_timestamps = Dates
  /\ Len(all_calls_list) = 2
  /\ CallValue(all_calls_list[1], <<"C","a","l","l"," ","D","a","t","e"," ","(","t","i","m","e","s","t","a","m","p",")">>) = <<"9">>
  /\ CallValue(all_calls_list[1], <<"C","a","l","l","e","r"," ","#">>) = <<"2">>
  /\ CallValue(CallLogRows[1], <<"C","a","l","l"," ","I","d"," ","#">>) = <<"1">>
  /\ CallValue(CallLogRows[2], <<"C","a","l","l"," ","I","d"," ","#">>) = <<"0">>
====
